---- MODULE Spec2Model ----
(***************************************************************************)
(* NetLabX: the topology-aware packet-path simulation engine.              *)
(*                                                                         *)
(* Strings of the program are sequences of one-character strings, so that  *)
(* split('.'), parseInt, template concatenation and === are modelled by    *)
(* what they do.  Device ids are plain strings: they are only ever         *)
(* compared with other ids.                                                *)
(***************************************************************************)
EXTENDS Integers, Sequences, FiniteSets, TLC

(***************************************************************************)
(* Bounds of the model.                                                    *)
(***************************************************************************)
\* longest chain of routers between the source and the destination
MaxChain == 11
\* most rows of a routing table under edit
MaxRows == 2

(***************************************************************************)
(* const x = e; F(x): the value of e is computed once and then named.      *)
(***************************************************************************)
Let(e, F(_)) == CHOOSE r \in {F(x) : x \in {e}} : TRUE

(***************************************************************************)
(* JavaScript string primitives.                                           *)
(***************************************************************************)
Digits == <<"0", "1", "2", "3", "4", "5", "6", "7", "8", "9">>

IsDigit(c) == \E i \in 1..10 : Digits[i] = c

DigitVal(c) == (CHOOSE i \in 1..10 : Digits[i] = c) - 1

\* Number.prototype.toString for a natural number
RECURSIVE Dec(_)
Dec(n) == IF n < 10 THEN <<Digits[n + 1]>> ELSE Dec(n \div 10) \o <<Digits[(n % 10) + 1]>>

\* the value undefined, as a template literal renders it
Undefined == <<"u", "n", "d", "e", "f", "i", "n", "e", "d">>

\* String.prototype.split('.')
RECURSIVE SplitFrom(_, _, _)
SplitFrom(s, i, cur) ==
    IF i > Len(s) THEN <<cur>>
    ELSE IF s[i] = "." THEN <<cur>> \o SplitFrom(s, i + 1, <<>>)
    ELSE SplitFrom(s, i + 1, Append(cur, s[i]))

Split(s) == SplitFrom(s, 1, <<>>)

\* parts[i] inside a template literal: the part, or "undefined" past the end
Part(parts, i) == IF i <= Len(parts) THEN parts[i] ELSE Undefined

\* String.prototype.trim, for the one blank character of the model
RECURSIVE TrimLeft(_)
TrimLeft(s) == IF s # <<>> /\ Head(s) = " " THEN TrimLeft(Tail(s)) ELSE s

\* the value of the longest prefix of decimal digits, acc so far
RECURSIVE DigitRun(_, _)
DigitRun(s, acc) ==
    IF s # <<>> /\ IsDigit(Head(s)) THEN DigitRun(Tail(s), acc * 10 + DigitVal(Head(s)))
    ELSE acc

\* NaN, as an integer no parse of a string of the model yields
NaN == 0 - 1000000000

isNaN(n) == n = NaN

\* parseInt(s): leading blanks skipped, an optional sign, then the longest
\* run of digits; NaN when there is no digit at that place
parseInt(s) ==
    Let(TrimLeft(s), LAMBDA t :
    Let(IF t # <<>> /\ Head(t) \in {"-", "+"} THEN Tail(t) ELSE t, LAMBDA u :
        IF u = <<>> \/ ~IsDigit(Head(u)) THEN NaN
        ELSE IF t # <<>> /\ Head(t) = "-" THEN 0 - DigitRun(u, 0) ELSE DigitRun(u, 0)))

Dot == <<".">>

\* `${a}.${b}.${c}.${d}` for numbers
IP(a, b, c, d) == Dec(a) \o Dot \o Dec(b) \o Dot \o Dec(c) \o Dot \o Dec(d)

(***************************************************************************)
(* Address helpers of the store.                                           *)
(***************************************************************************)
getNetwork(ip) ==
    Let(Split(ip), LAMBDA parts :
        Part(parts, 1) \o Dot \o Part(parts, 2) \o Dot \o Part(parts, 3) \o Dot \o <<"0">>)

validateIP(ip) ==
    \E parts \in {Split(ip)} :
        /\ Len(parts) = 4
        /\ \A i \in 1..Len(parts) :
              \E num \in {parseInt(parts[i])} : ~isNaN(num) /\ num >= 0 /\ num <= 255

\* /^(\d{1,3})\.(\d{1,3})\.(\d{1,3})\.(\d{1,3})$/
ipPattern(ip) ==
    \E parts \in {Split(ip)} :
        /\ Len(parts) = 4
        /\ \A i \in 1..4 :
              /\ Len(parts[i]) \in 1..3
              /\ \A j \in 1..Len(parts[i]) : IsDigit(parts[i][j])

\* validateIPAddress(ip).valid
validateIPAddress(ip) ==
    /\ TrimLeft(ip) # <<>>
    /\ ipPattern(ip)
    /\ \E segments \in {[i \in 1..4 |-> parseInt(Split(ip)[i])]} :
           /\ \A i \in 1..4 : segments[i] >= 0 /\ segments[i] <= 255
           /\ segments[1] \notin {0, 127, 255}
           /\ segments[4] \notin {0, 255}

(***************************************************************************)
(* The topology snapshot.                                                  *)
(*   Device    [id, name, type, ip, interfaces, routingTable]              *)
(*   Interface [id, name, ip, subnetMask]                                  *)
(*   RouteEntry [destination, nextHop, metric]                             *)
(*   Connection [id, source, target]                                       *)
(***************************************************************************)
\* the value of Array.prototype.find when no element matches
NoDevice ==
    [id |-> "", name |-> <<>>, type |-> "undefined", ip |-> <<>>,
     interfaces |-> <<>>, routingTable |-> <<>>]

\* devices.find(P)
Find(devs, P(_)) ==
    IF \E i \in 1..Len(devs) : P(devs[i])
    THEN devs[CHOOSE i \in 1..Len(devs) : P(devs[i]) /\ \A j \in 1..(i - 1) : ~P(devs[j])]
    ELSE NoDevice

\* Array.prototype.filter
Filter(seq, P(_)) == SelectSeq(seq, P)

\* mutant: a connection with either device at either end counts
hasPhysicalConnectionEitherEnd(deviceA, deviceB, conns) ==
    \E i \in 1..Len(conns) :
        \/ conns[i].source = deviceA.id \/ conns[i].target = deviceB.id
        \/ conns[i].source = deviceB.id \/ conns[i].target = deviceA.id

hasPhysicalConnection(deviceA, deviceB, conns) ==
    \E i \in 1..Len(conns) :
        \/ conns[i].source = deviceA.id /\ conns[i].target = deviceB.id
        \/ conns[i].source = deviceB.id /\ conns[i].target = deviceA.id

\* the three spellings of a directly attached network
DirectDash == <<"-">>
DirectWord == <<"z", "h", "i", "l", "i", "a", "n">>   \* the two-character word "zhilian" of the UI
DirectZero == IP(0, 0, 0, 0)

\* mutant: only the dash is taken for a direct route
isDirectDashOnly(nextHop) == nextHop = DirectDash

isDirect(nextHop) == nextHop = DirectDash \/ nextHop = DirectWord \/ nextHop = DirectZero

\* mutant: r goes before the entries of its own metric
RECURSIVE InsertBeforeEqual(_, _)
InsertBeforeEqual(sorted, r) ==
    IF sorted = <<>> THEN <<r>>
    ELSE IF Head(sorted).metric - r.metric < 0
         THEN <<Head(sorted)>> \o InsertBeforeEqual(Tail(sorted), r)
         ELSE <<r>> \o sorted

\* insert r after every entry whose metric is not larger: a.metric - b.metric
\* under the stable Array.prototype.sort
RECURSIVE InsertByMetric(_, _)
InsertByMetric(sorted, r) ==
    IF sorted = <<>> THEN <<r>>
    ELSE IF Head(sorted).metric - r.metric <= 0
         THEN <<Head(sorted)>> \o InsertByMetric(Tail(sorted), r)
         ELSE <<r>> \o sorted

RECURSIVE SortByMetric(_)
SortByMetric(routes) ==
    IF routes = <<>> THEN <<>>
    ELSE InsertByMetric(SortByMetric(SubSeq(routes, 1, Len(routes) - 1)), routes[Len(routes)])

\* exact-address matches first, network matches when there is none
MatchingRoutes(table, destIP) ==
    Let(Filter(table, LAMBDA r : r.destination = destIP), LAMBDA exact :
        IF Len(exact) = 0
        THEN Let(getNetwork(destIP), LAMBDA destNetwork :
                 Filter(table, LAMBDA r : r.destination = destNetwork))
        ELSE exact)

\* the next-hop router of a forwarding route: by name, then by interface address
FindNextRouter(devs, nextHop) ==
    Let(Find(devs, LAMBDA d : d.name = nextHop), LAMBDA byName :
        IF byName # NoDevice THEN byName
        ELSE Find(devs, LAMBDA d :
                 d.type = "router" /\ \E k \in 1..Len(d.interfaces) : d.interfaces[k].ip = nextHop))

hasCommonNetwork(a, b) ==
    \E i \in 1..Len(a.interfaces) : \E currentNet \in {getNetwork(a.interfaces[i].ip)} :
        \E j \in 1..Len(b.interfaces) : currentNet = getNetwork(b.interfaces[j].ip)

\* failure reasons of one candidate route
ReasonNoDest == "destination does not exist"
ReasonNoIface == "router has no interface in the network"
ReasonNoLink == "physical link down"
ReasonNoRouter == "next-hop router does not exist"
ReasonNotRouter == "next hop is not a router"
ReasonNoCommon == "no common network"
Feasible == "ok"

\* mutant: a candidate is taken without any of the checks
TryRouteUnchecked(devs, conns, cur, destIP, r) == Feasible

\* one pass of the body of `for (const candidateRoute of sortedRoutes)`:
\* the reason the candidate is skipped, or Feasible
TryRoute(devs, conns, cur, destIP, r) ==
    IF isDirect(r.nextHop)
    THEN Let(Find(devs, LAMBDA d : d.ip = destIP), LAMBDA destDevice :
             IF destDevice = NoDevice THEN ReasonNoDest
             ELSE IF ~\E destNetwork \in {getNetwork(destIP)} :
                        \E k \in 1..Len(cur.interfaces) :
                           getNetwork(cur.interfaces[k].ip) = destNetwork
                  THEN ReasonNoIface
             ELSE IF ~hasPhysicalConnection(cur, destDevice, conns) THEN ReasonNoLink
             ELSE Feasible)
    ELSE Let(FindNextRouter(devs, r.nextHop), LAMBDA nextRouter :
             IF nextRouter = NoDevice THEN ReasonNoRouter
             ELSE IF nextRouter.type # "router" THEN ReasonNotRouter
             ELSE IF ~hasPhysicalConnection(cur, nextRouter, conns) THEN ReasonNoLink
             ELSE IF ~hasCommonNetwork(cur, nextRouter) THEN ReasonNoCommon
             ELSE Feasible)

\* mutant: only the first candidate is tried
ChosenIndexFirstOnly(devs, conns, cur, destIP, sortedRoutes) ==
    IF TryRoute(devs, conns, cur, destIP, sortedRoutes[1]) = Feasible THEN 1 ELSE 0

\* index in sortedRoutes of the route the loop breaks on, 0 when it ends
\* without one
ChosenIndex(devs, conns, cur, destIP, sortedRoutes) ==
    Let({i \in 1..Len(sortedRoutes) :
            TryRoute(devs, conns, cur, destIP, sortedRoutes[i]) = Feasible},
        LAMBDA ok : IF ok = {} THEN 0 ELSE CHOOSE i \in ok : \A j \in ok : i <= j)

\* failedRoutes when the loop stops at index upTo (or runs to the end)
FailedRoutes(devs, conns, cur, destIP, sortedRoutes, upTo) ==
    [i \in 1..upTo |->
        [nextHop |-> IF isDirect(sortedRoutes[i].nextHop) THEN DirectWord
                     ELSE sortedRoutes[i].nextHop,
         metric |-> sortedRoutes[i].metric,
         reason |-> TryRoute(devs, conns, cur, destIP, sortedRoutes[i])]]

(***************************************************************************)
(* simulateRouting.                                                        *)
(***************************************************************************)
maxHops == 10

\* the message of a result: which template it is, and the values it interpolates
Message(kind, info) == [kind |-> kind, info |-> info]

SimulationResult(success, path, message, steps) ==
    [success |-> success, path |-> path, message |-> message, steps |-> steps]

\* no result: the call has not returned, or threw
NoResult == [none |-> TRUE]

endpointLabel(d) == <<d.type, d.name>>

\* `${f.nextHop}(metric ${f.metric}, ${f.reason})` of each failed route
RECURSIVE failedInfo(_)
failedInfo(failed) ==
    IF failed = <<>> THEN <<>>
    ELSE <<Head(failed).nextHop, Dec(Head(failed).metric), <<Head(failed).reason>>>>
         \o failedInfo(Tail(failed))

\* `${f.nextHop}(metric ${f.metric})` of each skipped route
RECURSIVE skippedRoutes(_)
skippedRoutes(failed) ==
    IF failed = <<>> THEN <<>>
    ELSE <<Head(failed).nextHop, Dec(Head(failed).metric)>> \o skippedRoutes(Tail(failed))

\* the walk's local variables
Walk(cur, hop, visited, path, steps) ==
    [currentDevice |-> cur, hopCount |-> hop, visitedDevices |-> visited,
     path |-> path, steps |-> steps]

\* outcomes of one pass of the while loop
Return(result, w) == [ret |-> TRUE, threw |-> FALSE, result |-> result, walk |-> w]
Throw(w) == [ret |-> FALSE, threw |-> TRUE, result |-> NoResult, walk |-> w]
Continue(w) == [ret |-> FALSE, threw |-> FALSE, result |-> NoResult, walk |-> w]

Fail(w, kind, info) == Return(SimulationResult(FALSE, w.path, Message(kind, info), w.steps), w)

\* mutant: the advance without the visited-devices check
AdvanceUnchecked(w, steps, nextDevice) ==
    IF nextDevice = NoDevice
    THEN Fail([w EXCEPT !.steps = steps], "cannotForward", <<w.currentDevice.name>>)
    ELSE Continue(Walk(nextDevice, w.hopCount + 1, w.visitedDevices \cup {nextDevice.id},
                       Append(w.path, nextDevice.name), steps))

\* the end of the loop body: loop check, then the advance to nextDevice
Advance(w, steps, nextDevice) ==
    IF nextDevice = NoDevice
    THEN Fail([w EXCEPT !.steps = steps], "cannotForward", <<w.currentDevice.name>>)
    ELSE IF nextDevice.id \in w.visitedDevices
    THEN Fail([w EXCEPT !.steps = steps], "loop", <<nextDevice.name>> \o w.path)
    ELSE Continue(Walk(nextDevice, w.hopCount + 1, w.visitedDevices \cup {nextDevice.id},
                       Append(w.path, nextDevice.name), steps))

\* the default gateway of an endpoint: the first router with an interface
\* on the endpoint's network
FindGateway(devs, cur) ==
    Let(getNetwork(cur.ip), LAMBDA currentNetwork :
        Find(devs, LAMBDA d :
            /\ d.type = "router"
            /\ \E k \in 1..Len(d.interfaces) :
                  getNetwork(d.interfaces[k].ip) = currentNetwork))

\* mutant: a gateway without link is reported like a missing gateway
EndpointHopOneFailure(devs, conns, w, showSteps) ==
    Let(w.currentDevice, LAMBDA cur :
    Let(FindGateway(devs, cur), LAMBDA gateway :
        IF gateway = NoDevice \/ ~hasPhysicalConnection(cur, gateway, conns)
        THEN Fail(w, "noGateway", <<cur.name, cur.ip, getNetwork(cur.ip)>>)
        ELSE Advance(w, w.steps, gateway)))

\* an endpoint hands the packet to its default gateway
EndpointHop(devs, conns, w, showSteps) ==
    Let(w.currentDevice, LAMBDA cur :
    Let(FindGateway(devs, cur), LAMBDA gateway :
        IF gateway = NoDevice
        THEN Fail(w, "noGateway", <<cur.name, cur.ip, getNetwork(cur.ip)>>)
        ELSE IF ~hasPhysicalConnection(cur, gateway, conns)
        THEN Fail(w, "noLink", <<cur.name, gateway.name>>)
        ELSE Let(IF showSteps
                 THEN Append(w.steps, [router |-> cur.name,
                                       action |-> Message("toGateway", <<gateway.name>>)])
                 ELSE w.steps,
                 LAMBDA steps : Advance(w, steps, gateway))))

\* mutant: the empty table is not told from a table without matching entry
noRoutingTableUnchecked(cur) == FALSE

\* !currentDevice.routingTable || currentDevice.routingTable.length === 0
noRoutingTable(cur) == Len(cur.routingTable) = 0

\* the entry pushed on steps once a route is chosen
RouteStep(cur, destNetwork, failedRoutes, route, routeIndex) ==
    IF routeIndex > 1
    THEN [router |-> cur.name,
          action |-> Message("fallback",
                             skippedRoutes(failedRoutes) \o <<route.nextHop, Dec(route.metric)>>),
          routeEntry |-> route]
    ELSE [router |-> cur.name,
          action |-> Message("lookup", <<destNetwork, route.nextHop, Dec(route.metric)>>),
          routeEntry |-> route]

\* the statements after a route is chosen: direct delivery or forwarding
UseRoute(devs, w, destIP, route, steps) ==
    IF isDirect(route.nextHop)
    THEN Let(Find(devs, LAMBDA d : d.ip = destIP), LAMBDA destDevice :
             IF destDevice = NoDevice
             THEN Throw(w)   \* destDevice!.name of undefined
             ELSE Return(SimulationResult(TRUE, Append(w.path, destDevice.name),
                                          Message("arrived", <<Dec(w.hopCount)>>), steps),
                         [w EXCEPT !.path = Append(w.path, destDevice.name),
                                   !.steps = steps]))
    ELSE Let(FindNextRouter(devs, route.nextHop), LAMBDA nextRouter :
             Advance(w, steps, nextRouter))

\* a router looks the destination up in its routing table
RouterHop(devs, conns, w, destIP, showSteps) ==
    Let(w.currentDevice, LAMBDA cur :
    Let(getNetwork(destIP), LAMBDA destNetwork :
    Let(MatchingRoutes(cur.routingTable, destIP), LAMBDA matchingRoutes :
        IF noRoutingTable(cur)
        THEN Fail(w, "emptyTable", <<cur.name>>)
        ELSE IF Len(matchingRoutes) = 0
        THEN Fail(w, "noRoute",
                  <<cur.name, destIP, destNetwork>>
                  \o [k \in 1..Len(cur.routingTable) |-> cur.routingTable[k].destination])
        ELSE
    Let(SortByMetric(matchingRoutes), LAMBDA sortedRoutes :
    Let(ChosenIndex(devs, conns, cur, destIP, sortedRoutes), LAMBDA routeIndex :
    Let(FailedRoutes(devs, conns, cur, destIP, sortedRoutes,
                     IF routeIndex = 0 THEN Len(sortedRoutes) ELSE routeIndex - 1),
        LAMBDA failedRoutes :
        IF routeIndex = 0
        THEN Fail(w, "allRoutesFailed", <<cur.name, destIP>> \o failedInfo(failedRoutes))
        ELSE
    Let(sortedRoutes[routeIndex], LAMBDA route :
    Let(IF showSteps
        THEN Append(w.steps, RouteStep(cur, destNetwork, failedRoutes, route, routeIndex))
        ELSE w.steps,
        LAMBDA steps : UseRoute(devs, w, destIP, route, steps)))))))))

\* mutant: the budget is compared with <=
withinBudgetOffByOne(hopCount) == hopCount <= maxHops

\* while (hopCount < maxHops)
withinBudget(hopCount) == hopCount < maxHops

\* one evaluation of the loop condition and, when it holds, of the loop body
LoopBody(devs, conns, w, destIP, showSteps) ==
    IF ~withinBudget(w.hopCount)
    THEN Fail(w, "maxHops", <<Dec(maxHops)>>)
    ELSE IF w.currentDevice.ip = destIP
    THEN Return(SimulationResult(TRUE, w.path, Message("arrived", <<Dec(w.hopCount)>>),
                                 w.steps), w)
    ELSE IF w.currentDevice.type # "router"
    THEN EndpointHop(devs, conns, w, showSteps)
    ELSE RouterHop(devs, conns, w, destIP, showSteps)

\* mutant: the candidates are sorted where they stand, in the router's table
tableAfterSortInPlace(table, matchingRoutes) == SortByMetric(table)

\* matchingRoutes.sort(...) reorders the array it is called on, and that array
\* is the copy Array.prototype.filter returned: the table keeps its order
tableAfterSort(table, matchingRoutes) == table

\* the device list after one pass of the loop: the one array a pass writes to
\* is the array the current router's candidates are sorted in
devicesAfterPass(devs, w, destIP) ==
    IF /\ withinBudget(w.hopCount)
       /\ w.currentDevice.ip # destIP
       /\ w.currentDevice.type = "router"
       /\ ~noRoutingTable(w.currentDevice)
       /\ Len(MatchingRoutes(w.currentDevice.routingTable, destIP)) > 0
    THEN [i \in 1..Len(devs) |->
             IF devs[i].id = w.currentDevice.id
             THEN [devs[i] EXCEPT !.routingTable =
                      tableAfterSort(@, MatchingRoutes(@, destIP))]
             ELSE devs[i]]
    ELSE devs

\* the walk before the first pass of the loop
FirstWalk(sourceDevice) ==
    [currentDevice |-> sourceDevice, hopCount |-> 0, visitedDevices |-> {sourceDevice.id},
     path |-> <<sourceDevice.name>>, steps |-> <<>>]

NoWalk ==
    [currentDevice |-> NoDevice, hopCount |-> 0, visitedDevices |-> {}, path |-> <<>>,
     steps |-> <<>>]

\* mutant: source and destination are compared before the source is pushed
PrologueLatePush(devs, sourceIP, destIP) ==
    IF ~validateIP(sourceIP) THEN Fail(NoWalk, "badSourceIP", <<sourceIP>>)
    ELSE IF ~validateIP(destIP) THEN Fail(NoWalk, "badDestIP", <<destIP>>)
    ELSE Let(Find(devs, LAMBDA d : d.ip = sourceIP), LAMBDA sourceDevice :
             IF sourceDevice = NoDevice THEN Fail(NoWalk, "noSource", <<sourceIP>>)
             ELSE IF sourceIP = destIP
             THEN Return(SimulationResult(TRUE, <<>>, Message("sameDevice", <<>>), <<>>),
                         FirstWalk(sourceDevice))
             ELSE Continue(FirstWalk(sourceDevice)))

\* the statements before the loop: a result, or the walk's first state
Prologue(devs, sourceIP, destIP) ==
    IF ~validateIP(sourceIP) THEN Fail(NoWalk, "badSourceIP", <<sourceIP>>)
    ELSE IF ~validateIP(destIP) THEN Fail(NoWalk, "badDestIP", <<destIP>>)
    ELSE Let(Find(devs, LAMBDA d : d.ip = sourceIP), LAMBDA sourceDevice :
             IF sourceDevice = NoDevice THEN Fail(NoWalk, "noSource", <<sourceIP>>)
             ELSE IF sourceIP = destIP
             THEN Return(SimulationResult(TRUE, <<sourceDevice.name>>,
                                          Message("sameDevice", <<>>), <<>>),
                         FirstWalk(sourceDevice))
             ELSE Continue(FirstWalk(sourceDevice)))

(***************************************************************************)
(* Snapshots.  The engine takes any snapshot the store can hold (built in  *)
(* the editor or imported); the model draws it from two families.          *)
(***************************************************************************)
DEFAULT_SUBNET_MASK == IP(255, 255, 255, 0)
BACKBONE_MASK == IP(255, 255, 255, 0)

Iface(id, name, ip, mask) == [id |-> id, name |-> name, ip |-> ip, subnetMask |-> mask]

\* AddDevicePanel: a router is created with its LAN interface and an empty table
NewRouter(id, name, lanIP) ==
    [id |-> id, name |-> name, type |-> "router", ip |-> lanIP,
     interfaces |-> <<Iface(id \o "-lan", "LAN", lanIP, DEFAULT_SUBNET_MASK)>>,
     routingTable |-> <<>>, dnsRecords |-> <<>>]

\* AddDevicePanel: every other device is created with the one interface eth0
NewDevice(id, name, type, ip) ==
    [id |-> id, name |-> name, type |-> type, ip |-> ip,
     interfaces |-> <<Iface(id \o "-eth0", "eth0", ip, DEFAULT_SUBNET_MASK)>>,
     routingTable |-> <<>>, dnsRecords |-> <<>>]

\* createRouterInterface, appended by addConnection to each router of a backbone link
WithBackbone(router, name, ip) ==
    [router EXCEPT !.interfaces =
        Append(@, Iface(router.id \o "-" \o name, name, ip, BACKBONE_MASK))]

WithTable(router, table) == [router EXCEPT !.routingTable = table]

Route(destination, nextHop, metric) ==
    [destination |-> destination, nextHop |-> nextHop, metric |-> metric]

Conn(source, target) == [id |-> source \o "-" \o target, source |-> source, target |-> target]

NameR(i) == <<"R">> \o Dec(i)
NamePC(i) == <<"P", "C">> \o Dec(i)
NameSrv1 == <<"S", "r", "v", "1">>
NameDNS1 == <<"D", "N", "S", "1">>
NameWeb1 == <<"W", "e", "b", "1">>

Net1 == IP(192, 168, 1, 0)
Net2 == IP(192, 168, 2, 0)
Net3 == IP(192, 168, 3, 0)
PC1ip == IP(192, 168, 1, 10)
PC2ip == IP(192, 168, 2, 10)
PC3ip == IP(192, 168, 9, 10)
R1ip == IP(192, 168, 1, 1)
R2ip == IP(192, 168, 2, 1)
R3ip == IP(192, 168, 3, 1)
DNSip == IP(192, 168, 2, 50)
WebIp == IP(192, 168, 2, 80)
\* an address of R2's LAN that no device owns
Ghost == IP(192, 168, 2, 99)

SchoolDomain == <<"w", "w", "w", ".", "s", "c", "h", "o", "o", "l", ".", "c", "o", "m">>

\* Family 1: PC1 - R1 - R2 - PC2 with the detour R1 - R3 - R2, the servers on
\* R2's LAN and PC3 on a LAN without router.
R1Tables ==
    { <<>>,
      <<Route(Net2, NameR(2), 1)>>,
      <<Route(Net1, DirectWord, 0), Route(Net2, NameR(2), 1)>>,
      <<Route(Net2, NameR(3), 1), Route(Net2, NameR(2), 2)>>,
      <<Route(Net2, NameR(2), 2), Route(Net2, NameR(3), 1)>>,
      <<Route(Net2, NameR(3), 1), Route(Net2, NameR(2), 1)>>,
      <<Route(Net3, NameR(3), 1)>>,
      <<Route(PC2ip, NameR(3), 1), Route(Net2, NameR(2), 1)>>,
      <<Route(Net2, NameR(9), 1), Route(Net2, NamePC(2), 2), Route(Net2, IP(10, 0, 0, 2), 3)>>,
      <<Route(Net2, DirectDash, 0), Route(Net2, NameR(2), 1)>> }

R2Tables ==
    { <<>>,
      <<Route(Net1, NameR(1), 1)>>,
      <<Route(Net2, DirectWord, 0), Route(Net1, NameR(1), 1)>>,
      <<Route(Net2, NameR(1), 1)>>,
      <<Route(Net2, NameR(3), 1), Route(Net2, DirectZero, 2)>> }

R3Tables ==
    { <<Route(Net2, NameR(2), 1)>>,
      <<Route(Net2, NameR(1), 1)>> }

\* the links a family-1 snapshot may lack
NetLinks == {Conn("pc1", "r1"), Conn("r1", "r3"), Conn("r2", "pc2")}

\* Array.prototype.filter on the full connection list
AllNetConns ==
    <<Conn("pc1", "r1"), Conn("r1", "r2"), Conn("r1", "r3"), Conn("r3", "r2"),
      Conn("r2", "pc2"), Conn("dns1", "r2"), Conn("r2", "web1")>>

NetDevices(t1, t2, t3) ==
    << NewDevice("pc1", NamePC(1), "pc", PC1ip),
       WithTable(WithBackbone(WithBackbone(NewRouter("r1", NameR(1), R1ip),
                                           "eth1", IP(10, 0, 0, 1)),
                              "eth2", IP(10, 0, 1, 1)), t1),
       WithTable(WithBackbone(WithBackbone(NewRouter("r2", NameR(2), R2ip),
                                           "eth1", IP(10, 0, 0, 2)),
                              "eth2", IP(10, 0, 2, 2)), t2),
       NewDevice("pc2", NamePC(2), "pc", PC2ip),
       WithTable(WithBackbone(WithBackbone(NewRouter("r3", NameR(3), R3ip),
                                           "eth1", IP(10, 0, 1, 2)),
                              "eth2", IP(10, 0, 2, 1)), t3),
       [NewDevice("dns1", NameDNS1, "dns", DNSip) EXCEPT
           !.dnsRecords = <<[domain |-> SchoolDomain, ip |-> WebIp]>>],
       NewDevice("web1", NameWeb1, "web", WebIp),
       NewDevice("pc3", NamePC(3), "pc", PC3ip) >>

\* family-1 snapshots: each table drawn from its set, at most one link missing
NetSnapshots ==
    { [devices |-> NetDevices(t1, t2, t3),
       connections |-> SelectSeq(AllNetConns, LAMBDA c : c \notin missing)] :
         t1 \in R1Tables, t2 \in R2Tables, t3 \in R3Tables,
         missing \in {{}} \cup {{c} : c \in NetLinks} }

\* Family 1 with a second device at the DNS server's address: a web server
\* that devices.find meets before (or after) the DNS server
NameWeb2 == <<"W", "e", "b", "2">>

TwinSnapshots ==
    { [devices |->
          IF first
          THEN <<NewDevice("web2", NameWeb2, "web", DNSip)>>
               \o NetDevices(<<Route(Net2, NameR(2), 1)>>,
                              <<Route(Net2, DirectWord, 0), Route(Net1, NameR(1), 1)>>,
                              <<Route(Net2, NameR(2), 1)>>)
          ELSE Append(NetDevices(<<Route(Net2, NameR(2), 1)>>,
                                 <<Route(Net2, DirectWord, 0), Route(Net1, NameR(1), 1)>>,
                                 <<Route(Net2, NameR(2), 1)>>),
                      NewDevice("web2", NameWeb2, "web", DNSip)),
       connections |-> Append(AllNetConns, Conn("r2", "web2"))] : first \in BOOLEAN }

\* Family 2: PC1 - R1 - R2 - ... - Rn, every router forwarding the last
\* router's LAN to its successor; Rn delivers directly to PC2 (back = 0) or
\* forwards to the earlier router R_back over a link of its own.
ChainLan(i) == IP(192, 168, 10 + i, 1)
ChainNet(i) == IP(192, 168, 10 + i, 0)
ChainPC1ip == IP(192, 168, 11, 10)
ChainPC2ip(n) == IP(192, 168, 10 + n, 10)

ChainRouter(i, n, back) ==
    LET base == NewRouter("r" \o ToString(i), NameR(i), ChainLan(i))
        left == IF i > 1 THEN WithBackbone(base, "eth1", IP(10, 0, i - 1, 2)) ELSE base
        right == IF i < n THEN WithBackbone(left, "eth2", IP(10, 0, i, 1)) ELSE left
        extra == back > 0 /\ back < n - 1
        loop == IF extra /\ i = n THEN WithBackbone(right, "eth3", IP(10, 0, 100, 1))
                ELSE IF extra /\ i = back THEN WithBackbone(right, "eth3", IP(10, 0, 100, 2))
                ELSE right
    IN  WithTable(loop,
                  IF i < n THEN <<Route(ChainNet(n), NameR(i + 1), 1)>>
                  ELSE IF back = 0 THEN <<Route(ChainNet(n), DirectWord, 0)>>
                  ELSE <<Route(ChainNet(n), NameR(back), 1)>>)

ChainDevices(n, back) ==
    <<NewDevice("pc1", NamePC(1), "pc", ChainPC1ip)>>
    \o [i \in 1..n |-> ChainRouter(i, n, back)]
    \o <<NewDevice("pc2", NamePC(2), "pc", ChainPC2ip(n))>>

ChainConns(n, back) ==
    <<Conn("pc1", "r1")>>
    \o [i \in 1..(n - 1) |-> Conn("r" \o ToString(i), "r" \o ToString(i + 1))]
    \o <<Conn("r" \o ToString(n), "pc2")>>
    \o (IF back > 0 /\ back < n - 1
        THEN <<Conn("r" \o ToString(n), "r" \o ToString(back))>> ELSE <<>>)

ChainSnapshots ==
    UNION { { [devices |-> ChainDevices(n, back), connections |-> ChainConns(n, back)] :
                back \in 0..(n - 1) } : n \in 1..MaxChain }

(***************************************************************************)
(* The store: the snapshot, the running simulation and its result.         *)
(***************************************************************************)
VARIABLES
    devices,            \* state.devices
    connections,        \* state.connections
    pc,                 \* "idle", "loop" (inside simulateRouting's while), "return", "done"
    simulationType,     \* "none", "ping", "dns", "http"
    args,               \* the arguments of the running entry point
    walk,               \* simulateRouting's locals: currentDevice, hopCount, visitedDevices, path, steps
    requestRoute,       \* the value simulateRouting returned
    thrown,             \* simulateRouting threw instead of returning
    simulationResult,   \* state.simulationResult
    browser             \* BrowserSimulator: its React state and the pending callback

vars == <<devices, connections, pc, simulationType, args, walk, requestRoute, thrown,
          simulationResult, browser>>

NoArgs == [sourceIP |-> <<>>, destIP |-> <<>>]

\* the browser panel before any visit: no result shown, no callback pending
NoBrowser ==
    [callback |-> "none", request |-> NoResult, httpResult |-> NoResult,
     dnsResult |-> NoResult, httpResponse |-> NoResult]

Init ==
    /\ \E snap \in NetSnapshots \cup TwinSnapshots \cup ChainSnapshots :
          /\ devices = snap.devices
          /\ connections = snap.connections
    /\ pc = "idle"
    /\ simulationType = "none"
    /\ args = NoArgs
    /\ walk = NoWalk
    /\ requestRoute = NoResult
    /\ thrown = FALSE
    /\ simulationResult = NoResult
    /\ browser = NoBrowser

\* mutant: the visited set outlives the call
CallSimulateRoutingStale(sourceIP, destIP) ==
    \E o \in {Prologue(devices, sourceIP, destIP)} :
        /\ walk' = [o.walk EXCEPT !.visitedDevices = @ \cup walk.visitedDevices]
        /\ requestRoute' = o.result
        /\ thrown' = FALSE
        /\ pc' = IF o.ret THEN "return" ELSE "loop"

\* the call simulateRouting(devices, connections, sourceIP, destIP) up to its loop
CallSimulateRouting(sourceIP, destIP) ==
    \E o \in {Prologue(devices, sourceIP, destIP)} :
        /\ walk' = o.walk
        /\ requestRoute' = o.result
        /\ thrown' = FALSE
        /\ pc' = IF o.ret THEN "return" ELSE "loop"

\* every caller leaves showSteps at its default
showSteps == FALSE

\* one pass of simulateRouting's while loop
LoopStep ==
    /\ pc = "loop"
    /\ \E o \in {LoopBody(devices, connections, walk, args.destIP, showSteps)} :
           /\ walk' = o.walk
           /\ requestRoute' = o.result
           /\ thrown' = o.threw
           /\ pc' = IF o.threw THEN "done" ELSE IF o.ret THEN "return" ELSE "loop"
    /\ devices' = devicesAfterPass(devices, walk, args.destIP)
    /\ UNCHANGED <<connections, simulationType, args, simulationResult>>

(***************************************************************************)
(* Inputs of the entry points.                                             *)
(***************************************************************************)
\* strings validateIP rejects
BadAddrs ==
    { <<>>,
      <<"1", "9", "2", ".", "1", "6", "8", ".", "2">>,
      IP(192, 168, 2, 256),
      <<"1", "9", "2", ".", "1", "6", "8", ".", "2", ".", "a">>,
      <<"1", "9", "2", ".", "1", "6", "8", ".", ".", "1", "0">>,
      <<"1", "9", "2", ".", "1", "6", "8", ".", "2", ".", "-", "1">> }

\* strings validateIP accepts and validateIPAddress rejects
LaxAddrs ==
    { IP(127, 0, 0, 1),
      IP(0, 168, 2, 10),
      IP(255, 168, 2, 10),
      IP(192, 168, 2, 0),
      IP(192, 168, 2, 255),
      PC2ip \o <<"a">>,
      <<"+">> \o PC2ip }

IpsOf(devs, ids) == {devs[i].ip : i \in {j \in 1..Len(devs) : devs[j].id \in ids}}

\* the addresses of the routers with an interface on pc2's network
RoutersOfPC2(devs) ==
    {devs[i].ip : i \in {j \in 1..Len(devs) :
        /\ devs[j].type = "router"
        /\ \E p \in IpsOf(devs, {"pc2"}) : \E k \in 1..Len(devs[j].interfaces) :
              getNetwork(devs[j].interfaces[k].ip) = getNetwork(p)}}

PingArgs(devs) ==
    LET pc1 == IpsOf(devs, {"pc1"})
        pc2 == IpsOf(devs, {"pc2"})
    IN  (IpsOf(devs, {"pc1", "r1", "pc3"})
           \X (pc1 \cup pc2 \cup RoutersOfPC2(devs) \cup {Ghost}))
        \cup ((BadAddrs \cup LaxAddrs) \X pc2)
        \cup (pc1 \X (BadAddrs \cup LaxAddrs))

UpperDomain == <<"W", "W", "W", ".", "S", "c", "h", "o", "o", "l", ".", "C", "O", "M">>
OtherDomain == <<"w", "w", "w", ".", "n", "o", "n", "e", ".", "c", "o", "m">>

\* source, DNS server address, domain
DNSArgs(devs) ==
    (IpsOf(devs, {"pc1"}) \cup {Ghost})
    \X (IpsOf(devs, {"dns1", "pc2"}) \cup {IP(192, 168, 2, 51)})
    \X {SchoolDomain, UpperDomain, OtherDomain}

\* httpSuccess, statusCode, httpMessage as the browser passes them
HTTPOutcomes ==
    { <<TRUE, 200, <<>>>>, <<FALSE, 404, <<"N", "o", "t", " ", "F", "o", "u", "n", "d">>>> }

\* source, target address
HTTPArgs(devs) ==
    (IpsOf(devs, {"pc1", "pc3"}))
    \X (IpsOf(devs, {"web1", "pc2"}) \cup {IP(192, 168, 2, 81)})

(***************************************************************************)
(* simulatePing.                                                           *)
(***************************************************************************)
simulatePing(sourceIP, destIP) ==
    /\ pc = "idle"
    /\ simulationType' = "ping"
    /\ args' = [sourceIP |-> sourceIP, destIP |-> destIP]
    /\ CallSimulateRouting(sourceIP, destIP)
    /\ UNCHANGED <<devices, connections, simulationResult>>

\* the timer callback of simulatePing stores the result
ReturnPing ==
    /\ pc = "return"
    /\ simulationType = "ping"
    /\ simulationResult' = requestRoute
    /\ pc' = "done"
    /\ UNCHANGED <<devices, connections, simulationType, args, walk, requestRoute, thrown>>

(***************************************************************************)
(* simulateDNSQuery.                                                       *)
(***************************************************************************)
UpperCase == <<"A", "B", "C", "D", "E", "F", "G", "H", "I", "J", "K", "L", "M",
               "N", "O", "P", "Q", "R", "S", "T", "U", "V", "W", "X", "Y", "Z">>
LowerCase == <<"a", "b", "c", "d", "e", "f", "g", "h", "i", "j", "k", "l", "m",
               "n", "o", "p", "q", "r", "s", "t", "u", "v", "w", "x", "y", "z">>

\* String.prototype.toLowerCase
toLowerCase(str) ==
    [i \in 1..Len(str) |->
        IF \E k \in 1..26 : UpperCase[k] = str[i]
        THEN LowerCase[CHOOSE k \in 1..26 : UpperCase[k] = str[i]]
        ELSE str[i]]

\* mutant: the path is copied without being reversed
ReverseNot(seq) == seq

\* [...path].reverse()
Reverse(seq) == [i \in 1..Len(seq) |-> seq[Len(seq) + 1 - i]]

\* a result of one of the round-trip entry points that is built without, or
\* in place of, the value simulateRouting returned
failureResult(path, message, steps) == SimulationResult(FALSE, path, message, steps)

\* mutant: the device at the end of the path is not looked at
pathEndsElsewhereUnchecked(route, device) == FALSE

\* the routing succeeded and its path ends at a device of another name than
\* the one the entry point looked up by address
pathEndsElsewhere(route, device) ==
    /\ route.success
    /\ Len(route.path) > 0
    /\ route.path[Len(route.path)] # device.name

dnsDeviceOf(devs, dnsServerIP) == Find(devs, LAMBDA d : d.type = "dns" /\ d.ip = dnsServerIP)

simulateDNSQuery(sourceIP, dnsServerIP, domain) ==
    /\ pc = "idle"
    /\ simulationType' = "dns"
    /\ args' = [sourceIP |-> sourceIP, destIP |-> dnsServerIP, domain |-> domain]
    /\ LET sourceDevice == Find(devices, LAMBDA d : d.ip = sourceIP)
           dnsDevice == dnsDeviceOf(devices, dnsServerIP)
           wrongTypeDevice == Find(devices, LAMBDA d : d.ip = dnsServerIP)
       IN  IF sourceDevice = NoDevice
           THEN /\ simulationResult' =
                      failureResult(<<>>, Message("dnsNoSource", <<sourceIP>>), <<>>)
                /\ pc' = "done"
                /\ UNCHANGED <<walk, requestRoute, thrown>>
           ELSE IF dnsDevice = NoDevice
           THEN /\ simulationResult' =
                      failureResult(<<>>,
                          IF wrongTypeDevice # NoDevice
                          THEN Message("dnsWrongType",
                                       <<dnsServerIP, wrongTypeDevice.name,
                                         <<wrongTypeDevice.type>>>>)
                          ELSE Message("dnsNoServer", <<dnsServerIP>>),
                          <<>>)
                /\ pc' = "done"
                /\ UNCHANGED <<walk, requestRoute, thrown>>
           ELSE /\ CallSimulateRouting(sourceIP, dnsServerIP)
                /\ UNCHANGED simulationResult
    /\ UNCHANGED <<devices, connections>>

\* simulateDNSQuery after simulateRouting returned
ReturnDNS ==
    /\ pc = "return"
    /\ simulationType = "dns"
    /\ LET sourceDevice == Find(devices, LAMBDA d : d.ip = args.sourceIP)
           dnsDevice == dnsDeviceOf(devices, args.destIP)
           pathEndDeviceName == requestRoute.path[Len(requestRoute.path)]
           wrongDevice == Find(devices, LAMBDA d : d.name = pathEndDeviceName)
           responsePath == IF requestRoute.success THEN Reverse(requestRoute.path) ELSE <<>>
           records == SelectSeq(dnsDevice.dnsRecords,
                                LAMBDA r : toLowerCase(r.domain) = toLowerCase(args.domain))
           resolvedIP == IF Len(records) > 0 THEN records[1].ip ELSE <<>>
       IN  IF pathEndsElsewhere(requestRoute, dnsDevice)
           THEN simulationResult' =
                    failureResult(requestRoute.path,
                                  Message("dnsWrongDevice",
                                          <<wrongDevice.name, <<wrongDevice.type>>,
                                            dnsDevice.name, args.destIP>>),
                                  requestRoute.steps)
           ELSE simulationResult' =
                    [success |-> requestRoute.success,
                     path |-> requestRoute.path,
                     steps |-> requestRoute.steps,
                     isRoundTrip |-> TRUE,
                     requestPath |-> requestRoute.path,
                     responsePath |-> responsePath,
                     requestLabel |-> Message("dnsQuery", <<args.domain>>),
                     responseLabel |-> IF resolvedIP # <<>>
                                       THEN Message("dnsAnswer", <<resolvedIP>>)
                                       ELSE Message("dnsNoDomain", <<>>),
                     message |-> IF requestRoute.success
                                 THEN Message("dnsDone",
                                              <<sourceDevice.name, dnsDevice.name, args.domain,
                                                resolvedIP>>)
                                 ELSE requestRoute.message]
    /\ pc' = "done"
    /\ UNCHANGED <<devices, connections, simulationType, args, walk, requestRoute, thrown>>

(***************************************************************************)
(* simulateHTTPRequest.                                                    *)
(***************************************************************************)
\* simulateHTTPRequest, whatever the store shows when it is called
httpRequest(sourceIP, targetIP, httpSuccess, statusCode, httpMessage) ==
    /\ simulationType' = "http"
    /\ args' = [sourceIP |-> sourceIP, destIP |-> targetIP, httpSuccess |-> httpSuccess,
                statusCode |-> statusCode, httpMessage |-> httpMessage]
    /\ LET targetDevice == Find(devices, LAMBDA d : d.ip = targetIP)
       IN  IF targetDevice = NoDevice \/ targetDevice.type # "web"
           THEN /\ simulationResult' =
                      failureResult(<<>>,
                           IF targetDevice # NoDevice
                           THEN Message("httpWrongType",
                                        <<targetIP, targetDevice.name, <<targetDevice.type>>>>)
                           ELSE Message("httpNoTarget", <<targetIP>>),
                           <<>>)
                      @@ [httpSuccess |-> FALSE, httpStatusCode |-> 503]
                /\ pc' = "done"
                /\ UNCHANGED <<walk, requestRoute, thrown>>
           ELSE /\ CallSimulateRouting(sourceIP, targetIP)
                /\ UNCHANGED simulationResult
    /\ UNCHANGED <<devices, connections>>

\* simulateHTTPRequest called on a cleared store
simulateHTTPRequest(sourceIP, targetIP, httpSuccess, statusCode, httpMessage) ==
    /\ pc = "idle"
    /\ httpRequest(sourceIP, targetIP, httpSuccess, statusCode, httpMessage)

\* simulateHTTPRequest after simulateRouting returned
ReturnHTTP ==
    /\ pc = "return"
    /\ simulationType = "http"
    /\ LET targetDevice == Find(devices, LAMBDA d : d.ip = args.destIP)
           pathEndDeviceName == requestRoute.path[Len(requestRoute.path)]
           wrongDevice == Find(devices, LAMBDA d : d.name = pathEndDeviceName)
           responsePath == IF requestRoute.success THEN Reverse(requestRoute.path) ELSE <<>>
           httpSummary == Message(IF args.httpSuccess THEN "httpOk" ELSE "httpError",
                                  <<Dec(args.statusCode)>>)
           mergedMessage ==
               IF requestRoute.success
               THEN IF Len(TrimLeft(args.httpMessage)) > 0
                    THEN [httpSummary EXCEPT !.info = @ \o <<args.httpMessage>>]
                    ELSE httpSummary
               ELSE requestRoute.message
       IN  IF pathEndsElsewhere(requestRoute, targetDevice)
           THEN simulationResult' =
                    failureResult(requestRoute.path,
                                  Message("httpWrongDevice",
                                          <<wrongDevice.name, <<wrongDevice.type>>,
                                            targetDevice.name, args.destIP>>),
                                  requestRoute.steps)
                    @@ [httpSuccess |-> FALSE, httpStatusCode |-> 503]
           ELSE simulationResult' =
                    [success |-> requestRoute.success,
                     path |-> requestRoute.path,
                     steps |-> requestRoute.steps,
                     isRoundTrip |-> TRUE,
                     requestPath |-> requestRoute.path,
                     responsePath |-> responsePath,
                     requestLabel |-> Message("httpGet", <<>>),
                     responseLabel |-> Message(IF args.httpSuccess THEN "httpOk"
                                               ELSE "httpError", <<Dec(args.statusCode)>>),
                     message |-> mergedMessage,
                     httpSuccess |-> args.httpSuccess,
                     httpStatusCode |-> args.statusCode]
    /\ pc' = "done"
    /\ UNCHANGED <<devices, connections, simulationType, args, walk, requestRoute, thrown>>

clearSimulation ==
    /\ pc = "done"
    /\ simulationResult' = NoResult
    /\ simulationType' = "none"
    /\ pc' = "idle"
    /\ args' = NoArgs
    /\ walk' = NoWalk
    /\ requestRoute' = NoResult
    /\ thrown' = FALSE
    /\ UNCHANGED <<devices, connections>>

(***************************************************************************)
(* DNSResolver and HTTPHandler (utils/dnsResolver.ts): the lookups the     *)
(* browser makes on the device list alone, before any routing.             *)
(***************************************************************************)
\* a message of this layer: the template, then the values it interpolates
Text(kind, values) == <<kind>> \o values

DNSQueryResult(success, domain, resolvedIP, message, steps) ==
    [success |-> success, domain |-> domain, resolvedIP |-> resolvedIP,
     message |-> message, steps |-> steps]

HTTPResponse(success, statusCode, content, message) ==
    [success |-> success, statusCode |-> statusCode, content |-> content,
     message |-> message]

\* the value of an optional field of a device that was never set
NoContent == <<>>
NoPort == 0

\* device.webContent and device.port, optional fields
webContentOf(d) == IF "webContent" \in DOMAIN d THEN d.webContent ELSE NoContent
portOf(d) == IF "port" \in DOMAIN d THEN d.port ELSE NoPort

\* port || 80
portOr80(port) == IF port = 0 THEN 80 ELSE port

\* dnsRecords.find(r => r.domain.toLowerCase() === domain.toLowerCase())
findRecord(records, domain) ==
    SelectSeq(records, LAMBDA r : toLowerCase(r.domain) = toLowerCase(domain))

\* DNSResolver.resolveDomain
resolveDomain(devs, query) ==
    Let(Find(devs, LAMBDA d : d.type = "dns" /\ d.ip = query.dnsServerIP), LAMBDA dnsServer :
        IF dnsServer = NoDevice
        THEN DNSQueryResult(FALSE, query.domain, <<>>,
                            Text("dnsServerMissing", <<query.dnsServerIP>>), <<"findServer">>)
        ELSE IF Len(dnsServer.dnsRecords) = 0
        THEN DNSQueryResult(FALSE, query.domain, <<>>,
                            Text("dnsNoRecords", <<dnsServer.name>>), <<"send", "noRecords">>)
        ELSE Let(findRecord(dnsServer.dnsRecords, query.domain), LAMBDA found :
            IF found = <<>>
            THEN DNSQueryResult(FALSE, query.domain, <<>>,
                                Text("dnsNotRegistered", <<query.domain>>),
                                <<"send", "notFound">>)
            ELSE IF Find(devs, LAMBDA d : d.ip = found[1].ip) = NoDevice
            THEN DNSQueryResult(FALSE, query.domain, found[1].ip,
                                Text("dnsTargetMissing", <<found[1].ip>>),
                                <<"send", "found", "noTarget">>)
            ELSE DNSQueryResult(TRUE, query.domain, found[1].ip,
                                Text("dnsResolved", <<query.domain, found[1].ip>>),
                                <<"send", "found", "answer">>)))

\* HTTPHandler.isIPAddress
isIPAddress(input) ==
    /\ ipPattern(input)
    /\ \A i \in 1..4 : \E num \in {parseInt(Split(input)[i])} : ~(num < 0 \/ num > 255)

\* deviceTypeMap[type] || type
deviceTypeName(type) ==
    IF type = "pc" THEN "PC"
    ELSE IF type = "dns" THEN "DNS server"
    ELSE IF type = "router" THEN "Router"
    ELSE type

\* mutant: the hosted content is never found missing
hasNoContentNever(webServer) == FALSE

\* !webServer.webContent || webServer.webContent.trim() === ''
hasNoContent(webServer) == TrimLeft(webContentOf(webServer)) = <<>>

\* mutant: any device that owns the address is taken for the web server
validateAndFetchWebServerAnyKind(devs, targetIP, requestPort, displayName) ==
    Let(Find(devs, LAMBDA d : d.ip = targetIP), LAMBDA webServer :
        IF webServer = NoDevice
        THEN HTTPResponse(FALSE, 404, NoContent, Text("hostUnreachable", <<targetIP>>))
        ELSE IF requestPort # portOr80(portOf(webServer))
        THEN HTTPResponse(FALSE, 503, NoContent,
                          Text("portMismatch", <<webServer.name,
                                                 Dec(portOr80(portOf(webServer))),
                                                 Dec(requestPort)>>))
        ELSE IF hasNoContent(webServer)
        THEN HTTPResponse(FALSE, 204, NoContent, Text("noContent", <<webServer.name>>))
        ELSE HTTPResponse(TRUE, 200, webContentOf(webServer), Text("httpOK", <<displayName>>)))

\* HTTPHandler.validateAndFetchWebServer
validateAndFetchWebServer(devs, targetIP, requestPort, displayName) ==
    Let(Find(devs, LAMBDA d : d.type = "web" /\ d.ip = targetIP), LAMBDA webServer :
        IF webServer = NoDevice
        THEN Let(Find(devs, LAMBDA d : d.ip = targetIP), LAMBDA existingDevice :
                 IF existingDevice = NoDevice
                 THEN HTTPResponse(FALSE, 404, NoContent,
                                   Text("hostUnreachable", <<targetIP>>))
                 ELSE HTTPResponse(FALSE, 503, NoContent,
                                   Text("notWebServer",
                                        <<targetIP, existingDevice.name,
                                          deviceTypeName(existingDevice.type)>>)))
        ELSE IF requestPort # portOr80(portOf(webServer))
        THEN HTTPResponse(FALSE, 503, NoContent,
                          Text("portMismatch", <<webServer.name,
                                                 Dec(portOr80(portOf(webServer))),
                                                 Dec(requestPort)>>))
        ELSE IF hasNoContent(webServer)
        THEN HTTPResponse(FALSE, 204, NoContent, Text("noContent", <<webServer.name>>))
        ELSE HTTPResponse(TRUE, 200, webContentOf(webServer), Text("httpOK", <<displayName>>)))

\* HTTPHandler.handleRequest: the DNS lookup, then the web server's answer
handleRequest(devs, request, dnsServerIP) ==
    Let(resolveDomain(devs, [domain |-> request.domain, sourceIP |-> request.sourceIP,
                             dnsServerIP |-> dnsServerIP]), LAMBDA dnsResult :
        IF ~dnsResult.success \/ dnsResult.resolvedIP = <<>>
        THEN [response |-> HTTPResponse(FALSE, 404, NoContent,
                                        Text("dnsFailed", dnsResult.message)),
              dnsResult |-> dnsResult]
        ELSE [response |-> validateAndFetchWebServer(devs, dnsResult.resolvedIP,
                                                     portOr80(request.port), request.domain),
              dnsResult |-> dnsResult])

\* HTTPHandler.handleDirectIPRequest
handleDirectIPRequest(devs, request) ==
    IF request.targetIP = <<>> \/ ~isIPAddress(request.targetIP)
    THEN HTTPResponse(FALSE, 400, NoContent, Text("invalidIP", <<request.targetIP>>))
    ELSE validateAndFetchWebServer(devs, request.targetIP, portOr80(request.port),
                                   request.targetIP)

(***************************************************************************)
(* RoutingTableEditor: the edited copy of a router's table is saved        *)
(* through updateDevice unless two rows share destination and metric.      *)
(***************************************************************************)
updateDevice(devs, id, table) ==
    [i \in 1..Len(devs) |->
        IF devs[i].id = id THEN [devs[i] EXCEPT !.routingTable = table] ELSE devs[i]]

\* mutant: two rows with one destination are refused whatever their metrics
hasDuplicateDestination(editedTable) ==
    \E i \in 1..Len(editedTable) : \E j \in 1..(i - 1) :
        editedTable[j].destination = editedTable[i].destination

\* the first row whose (destination, metric) an earlier row already has
hasDuplicateMetric(editedTable) ==
    \E i \in 1..Len(editedTable) : \E j \in 1..(i - 1) :
        /\ editedTable[j].destination = editedTable[i].destination
        /\ editedTable[j].metric = editedTable[i].metric

\* the device list after handleSave
savedDevices(devs, id, editedTable) ==
    IF hasDuplicateMetric(editedTable) THEN devs ELSE updateDevice(devs, id, editedTable)

handleSave(id, editedTable) ==
    /\ pc = "idle"
    /\ devices' = savedDevices(devices, id, editedTable)
    /\ UNCHANGED <<connections, pc, simulationType, args, walk, requestRoute, thrown,
                   simulationResult>>

\* handleDeleteRow(index) on the edited copy
DeleteRow(table, index) == SelectSeq([i \in 1..Len(table) |-> <<i, table[i]>>],
                                     LAMBDA p : p[1] # index)

RowsOf(pairs) == [i \in 1..Len(pairs) |-> pairs[i][2]]

\* handleAddRow followed by handleCellChange of the new row's destination
AddRow(table, destination) == Append(table, Route(destination, DirectWord, 0))

\* the copies the editor can hold after one edit of the router's table
EditedTables(d) ==
    {RowsOf(DeleteRow(d.routingTable, k)) : k \in 1..Len(d.routingTable)}
    \cup (IF Len(d.routingTable) < MaxRows
          THEN {AddRow(d.routingTable, getNetwork(d.ip))} ELSE {})

\* the rows typed into the editor: a route to the other LAN through R2, the
\* same with metric 2, a direct route to it with metric 1, and the router's
\* own LAN
EditorRows ==
    { Route(Net2, NameR(2), 1), Route(Net2, NameR(2), 2), Route(Net2, DirectWord, 1),
      Route(Net1, DirectWord, 0) }

RECURSIVE TablesOfLen(_)
TablesOfLen(n) ==
    IF n = 0 THEN {<<>>}
    ELSE {Append(t, row) : t \in TablesOfLen(n - 1), row \in EditorRows}

\* the copies the editor can hold when Save is pressed
EditorTables == UNION {TablesOfLen(n) : n \in 0..MaxRows}

\* the two-router scenario: PC1 behind R1, PC2 behind R2, backbone 10.0.0.1/10.0.0.2
ScenarioDevices ==
    << NewDevice("pc1", NamePC(1), "pc", PC1ip),
       WithTable(WithBackbone(NewRouter("r1", NameR(1), R1ip), "eth1", IP(10, 0, 0, 1)),
                 <<Route(Net2, NameR(2), 1)>>),
       WithTable(WithBackbone(NewRouter("r2", NameR(2), R2ip), "eth1", IP(10, 0, 0, 2)),
                 <<Route(Net1, NameR(1), 1)>>),
       NewDevice("pc2", NamePC(2), "pc", PC2ip) >>

ScenarioConns == <<Conn("pc1", "r1"), Conn("r1", "r2"), Conn("r2", "pc2")>>

ScenarioInit ==
    /\ devices = ScenarioDevices
    /\ connections = ScenarioConns
    /\ pc = "idle"
    /\ simulationType = "none"
    /\ args = NoArgs
    /\ walk = NoWalk
    /\ requestRoute = NoResult
    /\ thrown = FALSE
    /\ simulationResult = NoResult
    /\ browser = NoBrowser

Next ==
    \/ (\E a \in PingArgs(devices) : simulatePing(a[1], a[2])) /\ UNCHANGED browser
    \/ (\E a \in DNSArgs(devices) : simulateDNSQuery(a[1], a[2], a[3])) /\ UNCHANGED browser
    \/ (\E a \in HTTPArgs(devices) : \E h \in HTTPOutcomes :
          simulateHTTPRequest(a[1], a[2], h[1], h[2], h[3])) /\ UNCHANGED browser
    \/ LoopStep /\ UNCHANGED browser
    \/ ReturnPing /\ UNCHANGED browser
    \/ ReturnDNS /\ UNCHANGED browser
    \/ ReturnHTTP /\ UNCHANGED browser
    \/ clearSimulation /\ UNCHANGED browser

Spec == Init /\ [][Next]_vars

\* the scenario with its routing tables under edit
ScenarioNext ==
    \/ (\E a \in PingArgs(devices) : simulatePing(a[1], a[2])) /\ UNCHANGED browser
    \/ LoopStep /\ UNCHANGED browser
    \/ ReturnPing /\ UNCHANGED browser
    \/ clearSimulation /\ UNCHANGED browser
    \/ \E i \in 1..Len(devices) :
          /\ devices[i].type = "router"
          /\ \E t \in EditedTables(devices[i]) : handleSave(devices[i].id, t)
          /\ UNCHANGED browser

SpecScenario == ScenarioInit /\ [][ScenarioNext]_vars

EditorNext ==
    \E i \in 1..Len(devices) : \E editedTable \in EditorTables :
        /\ devices[i].type = "router"
        /\ handleSave(devices[i].id, editedTable)
        /\ UNCHANGED browser

SpecEditor == ScenarioInit /\ [][EditorNext]_vars


(***************************************************************************)
(* BrowserSimulator: handleVisit and the callbacks it hands to the store.  *)
(***************************************************************************)
storeVars == <<devices, connections, pc, simulationType, args, walk, requestRoute, thrown,
               simulationResult>>

\* /\.\./.test(s) || s.startsWith('.') || s.endsWith('.')
badDomain(s) ==
    \/ \E i \in 1..(Len(s) - 1) : s[i] = "." /\ s[i + 1] = "."
    \/ s # <<>> /\ (s[1] = "." \/ s[Len(s)] = ".")

\* the panel with nothing but the given response shown
shown(request, response) ==
    [NoBrowser EXCEPT !.request = request, !.httpResponse = response]

\* handleVisit on a cleared store, the address bar holding a bare host
handleVisit(sourceIP, url, port, urlType, dnsServerIP) ==
    /\ pc = "idle"
    /\ browser.callback = "none"
    /\ \E request \in {[method |-> "GET", url |-> url, sourceIP |-> sourceIP, port |-> port,
                        domain |-> IF isIPAddress(url) THEN <<>> ELSE url,
                        targetIP |-> IF isIPAddress(url) THEN url ELSE <<>>]} :
          IF urlType = "domain" /\ (isIPAddress(url) \/ badDomain(url))
          THEN /\ browser' = shown(request, HTTPResponse(FALSE, 400, NoContent,
                                                         Text("badDomain", <<>>)))
               /\ UNCHANGED storeVars
          ELSE IF urlType = "ip" /\ ~isIPAddress(url)
          THEN /\ browser' = shown(request, HTTPResponse(FALSE, 400, NoContent,
                                                         Text("badIP", <<>>)))
               /\ UNCHANGED storeVars
          ELSE IF isIPAddress(url)
          THEN \E httpResponse \in {handleDirectIPRequest(devices, request)} :
                  /\ simulateHTTPRequest(sourceIP, url, httpResponse.success,
                                         httpResponse.statusCode, httpResponse.message)
                  /\ browser' = [NoBrowser EXCEPT !.callback = "direct",
                                                  !.request = request,
                                                  !.httpResult = [response |-> httpResponse]]
          ELSE IF dnsServerIP = <<>>
          THEN /\ browser' = shown(request, HTTPResponse(FALSE, 0, NoContent,
                                                         Text("noDnsConfigured", <<>>)))
               /\ UNCHANGED storeVars
          ELSE \E httpResult \in {handleRequest(devices, request, dnsServerIP)} :
                  /\ simulateDNSQuery(sourceIP, dnsServerIP, url)
                  /\ browser' = [NoBrowser EXCEPT !.callback = "dns",
                                                  !.request = request,
                                                  !.httpResult = httpResult]

\* latestSimulationResult ? !latestSimulationResult.success : false
routingFailed(latest) == latest # NoResult /\ ~latest.success

\* the callback of the DNS query: the DNS result is shown and, when the
\* lookup gave an address, the HTTP request is scheduled
dnsCallback ==
    /\ browser.callback = "dns"
    /\ pc = "done"
    /\ ~thrown
    /\ browser' =
          IF routingFailed(simulationResult)
          THEN [browser EXCEPT
                   !.callback = "none",
                   !.dnsResult = DNSQueryResult(FALSE, browser.request.domain, <<>>,
                                                simulationResult.message,
                                                IF Len(simulationResult.steps) > 0
                                                THEN simulationResult.steps
                                                ELSE <<"routeCheck">>),
                   !.httpResponse = HTTPResponse(FALSE, 0, NoContent,
                                                 <<"dnsAborted", simulationResult.message>>)]
          ELSE IF /\ browser.httpResult.dnsResult.success
                  /\ browser.httpResult.dnsResult.resolvedIP # <<>>
          THEN [browser EXCEPT !.callback = "timer",
                               !.dnsResult = browser.httpResult.dnsResult]
          ELSE [browser EXCEPT !.callback = "none",
                               !.dnsResult = browser.httpResult.dnsResult,
                               !.httpResponse = browser.httpResult.response]
    /\ UNCHANGED storeVars

\* the timer the DNS callback set: the HTTP request to the resolved address,
\* carrying the response handleRequest computed before the DNS query
httpTransition ==
    /\ browser.callback = "timer"
    /\ httpRequest(browser.request.sourceIP,
                   browser.httpResult.dnsResult.resolvedIP,
                   browser.httpResult.response.success,
                   browser.httpResult.response.statusCode,
                   browser.httpResult.response.message)
    /\ browser' = [browser EXCEPT !.callback = "http"]

\* the callback of the HTTP request after a DNS query
httpCallback ==
    /\ browser.callback = "http"
    /\ pc = "done"
    /\ ~thrown
    /\ browser' =
          IF routingFailed(simulationResult)
          THEN [browser EXCEPT
                   !.callback = "none",
                   !.httpResponse = HTTPResponse(FALSE, 0, NoContent,
                                                 <<"httpAborted", simulationResult.message>>)]
          ELSE [browser EXCEPT !.callback = "none",
                               !.httpResponse = browser.httpResult.response]
    /\ UNCHANGED storeVars

\* the callback of the HTTP request to a literal address
directCallback ==
    /\ browser.callback = "direct"
    /\ pc = "done"
    /\ ~thrown
    /\ browser' = [browser EXCEPT !.callback = "none",
                                  !.httpResponse = browser.httpResult.response]
    /\ UNCHANGED storeVars

\* the LAN of the browser scenarios: PC1, DNS1 at 192.168.1.50 and a host at
\* 192.168.1.100 behind R1
Dns50 == IP(192, 168, 1, 50)
HostIp == IP(192, 168, 1, 100)
NameHost == <<"H", "o", "s", "t">>
Page == <<"<", "p", ">">>
Blank == <<" ">>

\* what owns 192.168.1.100
Hosts ==
    { <<NewDevice("host", NameHost, "pc", HostIp)>>,
      <<NewDevice("host", NameHost, "dns", HostIp)>>,
      <<[webContent |-> Page] @@ NewDevice("host", NameHost, "web", HostIp)>>,
      <<[webContent |-> Page, port |-> 8080] @@ NewDevice("host", NameHost, "web", HostIp)>>,
      <<NewDevice("host", NameHost, "web", HostIp)>>,
      <<[webContent |-> Blank, port |-> 80] @@ NewDevice("host", NameHost, "web", HostIp)>>,
      <<>> }

RecordSets ==
    { <<[domain |-> SchoolDomain, ip |-> HostIp]>>,
      <<[domain |-> OtherDomain, ip |-> PC1ip], [domain |-> UpperDomain, ip |-> HostIp]>>,
      <<>> }

BrowserConns == <<Conn("pc1", "r1"), Conn("r1", "dns1"), Conn("r1", "host")>>

BrowserSnapshots ==
    { [devices |->
          << NewDevice("pc1", NamePC(1), "pc", PC1ip),
             WithTable(NewRouter("r1", NameR(1), R1ip), t),
             [NewDevice("dns1", NameDNS1, "dns", Dns50) EXCEPT !.dnsRecords = records] >>
          \o host,
       connections |-> SelectSeq(BrowserConns, LAMBDA c : c \notin missing)] :
         t \in {<<Route(Net1, DirectWord, 0)>>, <<>>},
         records \in RecordSets,
         host \in Hosts,
         missing \in {{}, {Conn("r1", "dns1")}, {Conn("r1", "host")}} }

BrowserInit ==
    /\ \E snap \in BrowserSnapshots :
          /\ devices = snap.devices
          /\ connections = snap.connections
    /\ pc = "idle"
    /\ simulationType = "none"
    /\ args = NoArgs
    /\ walk = NoWalk
    /\ requestRoute = NoResult
    /\ thrown = FALSE
    /\ simulationResult = NoResult
    /\ browser = NoBrowser

\* what the panel holds when the visit button is pressed: source, address
\* bar, port, kind of address, the PC's DNS server
VisitArgs ==
    ({PC1ip}
       \X {SchoolDomain, OtherDomain, <<"w", ".", ".", "c">>, HostIp, IP(192, 168, 1, 101)}
       \X {80, 8080}
       \X {"domain", "ip"}
       \X {Dns50})
    \cup {<<PC1ip, SchoolDomain, 80, "domain", <<>>>>,
          <<PC1ip, SchoolDomain, 0, "domain", Dns50>>,
          <<PC1ip, SchoolDomain, 80, "domain", IP(192, 168, 1, 51)>>}

BrowserNext ==
    \/ \E v \in VisitArgs : handleVisit(v[1], v[2], v[3], v[4], v[5])
    \/ LoopStep /\ UNCHANGED browser
    \/ ReturnDNS /\ UNCHANGED browser
    \/ ReturnHTTP /\ UNCHANGED browser
    \/ dnsCallback
    \/ httpTransition
    \/ httpCallback
    \/ directCallback
    \/ clearSimulation /\ browser.callback = "none" /\ UNCHANGED browser

SpecBrowser == BrowserInit /\ [][BrowserNext]_vars

(***************************************************************************)
(* simulatePing called again while the store shows the result of the call  *)
(* before, and pings of a device to itself.                                *)
(***************************************************************************)
\* simulatePing with the arguments of the call whose result the store shows
simulatePingAgain ==
    /\ pc = "done"
    /\ simulationType = "ping"
    /\ ~thrown
    /\ simulationResult # NoResult
    /\ CallSimulateRouting(args.sourceIP, args.destIP)
    /\ UNCHANGED <<devices, connections, simulationType, args, simulationResult>>

\* the primary address of every device, as source and as destination
SelfArgs(devs) == {<<devs[i].ip, devs[i].ip>> : i \in 1..Len(devs)}

CallsNext ==
    \/ (\E a \in PingArgs(devices) : simulatePing(a[1], a[2])) /\ UNCHANGED browser
    \/ (\E a \in SelfArgs(devices) : simulatePing(a[1], a[2])) /\ UNCHANGED browser
    \/ simulatePingAgain /\ UNCHANGED browser
    \/ LoopStep /\ UNCHANGED browser
    \/ ReturnPing /\ UNCHANGED browser
    \/ clearSimulation /\ UNCHANGED browser

SpecCalls == Init /\ [][CallsNext]_vars

(***************************************************************************)
(* The store's topology operations: addDevice, deleteDevice,               *)
(* addConnection, deleteConnection.                                        *)
(***************************************************************************)
ENDPOINT_TYPES == {"pc", "dns", "web"}

isEndpointDevice(device) == device.type \in ENDPOINT_TYPES

isRouterDevice(device) == device.type = "router"

\* the value of Array.prototype.find on an interface list without match
NoIface == [id |-> "", name |-> "", ip |-> <<>>, subnetMask |-> <<>>]

\* device.interfaces?.find((iface) => iface.name === 'LAN')
getLanInterface(device) ==
    IF \E k \in 1..Len(device.interfaces) : device.interfaces[k].name = "LAN"
    THEN device.interfaces[CHOOSE k \in 1..Len(device.interfaces) :
                              /\ device.interfaces[k].name = "LAN"
                              /\ \A j \in 1..(k - 1) : device.interfaces[j].name # "LAN"]
    ELSE NoIface

\* Number(s) for the strings of the model: the empty string is 0, a string of
\* digits its value, anything else NaN
Number(s) ==
    IF s = <<>> THEN 0
    ELSE IF \A i \in 1..Len(s) : IsDigit(s[i]) THEN DigitRun(s, 0)
    ELSE NaN

\* a & b on 32-bit integers; NaN counts as 0
RECURSIVE BitAnd(_, _)
BitAnd(a, b) ==
    IF isNaN(a) \/ isNaN(b) \/ a = 0 \/ b = 0 THEN 0
    ELSE 2 * BitAnd(a \div 2, b \div 2) + (IF a % 2 = 1 /\ b % 2 = 1 THEN 1 ELSE 0)

\* calculateSubnet of utils/subnetUtils.ts: '' unless both have four parts
calculateSubnet(ip, subnetMask) ==
    Let(Split(ip), LAMBDA ipParts :
    Let(Split(subnetMask), LAMBDA maskParts :
        IF Len(ipParts) # 4 \/ Len(maskParts) # 4 THEN <<>>
        ELSE Dec(BitAnd(Number(ipParts[1]), Number(maskParts[1]))) \o Dot
             \o Dec(BitAnd(Number(ipParts[2]), Number(maskParts[2]))) \o Dot
             \o Dec(BitAnd(Number(ipParts[3]), Number(maskParts[3]))) \o Dot
             \o Dec(BitAnd(Number(ipParts[4]), Number(maskParts[4])))))

deriveSubnet(ip, mask) ==
    Let(calculateSubnet(ip, mask), LAMBDA calculated :
        IF calculated # <<>> THEN calculated
        ELSE Let(Split(ip), LAMBDA parts :
                 IF Len(parts) >= 3
                 THEN parts[1] \o Dot \o parts[2] \o Dot \o parts[3] \o Dot \o <<"0">>
                 ELSE IP(0, 0, 0, 0)))

\* iface.subnetMask || DEFAULT_SUBNET_MASK
maskOf(iface) == IF iface.subnetMask = <<>> THEN DEFAULT_SUBNET_MASK ELSE iface.subnetMask

isInSameSubnetHelper(ip1, mask, ip2) == deriveSubnet(ip1, mask) = deriveSubnet(ip2, mask)

BACKBONE_PREFIX_PARTS == << <<"1", "0">>, <<"0">> >>

\* the third octets of the 10.0.x.y addresses on the routers' interfaces
\* other than LAN
collectUsedBackboneIndices(devs) ==
    { Number(Split(devs[p[1]].interfaces[p[2]].ip)[3]) :
        p \in { p \in UNION { {i} \X (1..Len(devs[i].interfaces)) : i \in 1..Len(devs) } :
            /\ isRouterDevice(devs[p[1]])
            /\ devs[p[1]].interfaces[p[2]].ip # <<>>
            /\ devs[p[1]].interfaces[p[2]].name # "LAN"
            /\ \E parts \in {Split(devs[p[1]].interfaces[p[2]].ip)} :
                  /\ Len(parts) >= 3
                  /\ parts[1] = BACKBONE_PREFIX_PARTS[1]
                  /\ parts[2] = BACKBONE_PREFIX_PARTS[2]
                  /\ ~isNaN(Number(parts[3])) } }

\* `${BACKBONE_PREFIX_PARTS[0]}.${BACKBONE_PREFIX_PARTS[1]}.${index}.${host}`
backboneAddress(index, host) ==
    BACKBONE_PREFIX_PARTS[1] \o Dot \o BACKBONE_PREFIX_PARTS[2] \o Dot \o Dec(index)
    \o Dot \o Dec(host)

backboneNetwork(index) ==
    [subnet |-> backboneAddress(index, 0), sourceIP |-> backboneAddress(index, 1),
     targetIP |-> backboneAddress(index, 2)]

\* mutant: the index is the number of indices in use
allocateBackboneNetworkByCount(devs) ==
    backboneNetwork(Cardinality(collectUsedBackboneIndices(devs)))

\* let index = 0; while (used.has(index)) index++
allocateBackboneNetwork(devs) ==
    Let(collectUsedBackboneIndices(devs), LAMBDA used :
        backboneNetwork(CHOOSE index \in 0..Cardinality(used) :
                            /\ index \notin used
                            /\ \A below \in 0..(index - 1) : below \in used))

\* `eth${index}`
EthNames == <<"eth1", "eth2", "eth3", "eth4", "eth5", "eth6">>

nextEthName(device) ==
    EthNames[CHOOSE index \in 1..Len(EthNames) :
                /\ \A k \in 1..Len(device.interfaces) : device.interfaces[k].name # EthNames[index]
                /\ \A below \in 1..(index - 1) :
                      \E k \in 1..Len(device.interfaces) :
                          device.interfaces[k].name = EthNames[below]]

\* `${device.id}-${name}-...`: the time and random suffix is left out, the
\* name being new among the device's interfaces
generateInterfaceId(device, name) == device.id \o "-" \o name

createRouterInterface(device, name, ip, subnet) ==
    [subnet |-> subnet] @@ Iface(generateInterfaceId(device, name), name, ip, BACKBONE_MASK)

\* connection.sourceInterfaceId, connection.targetInterfaceId: optional
sourceInterfaceIdOf(c) == IF "sourceInterfaceId" \in DOMAIN c THEN c.sourceInterfaceId ELSE ""
targetInterfaceIdOf(c) == IF "targetInterfaceId" \in DOMAIN c THEN c.targetInterfaceId ELSE ""

Topology(devs, conns) == [devices |-> devs, connections |-> conns]

\* mutant: only a connection in the same direction counts as duplicate
duplicateConnectionOneWay(conns, connection) ==
    \E k \in 1..Len(conns) :
        conns[k].source = connection.source /\ conns[k].target = connection.target

duplicateConnection(conns, connection) ==
    \E k \in 1..Len(conns) :
        \/ conns[k].source = connection.source /\ conns[k].target = connection.target
        \/ conns[k].source = connection.target /\ conns[k].target = connection.source

\* the addresses more than one device other than a router has
duplicateIPs(devs) ==
    { devs[i].ip : i \in { j \in 1..Len(devs) :
        /\ devs[j].type # "router"
        /\ devs[j].ip # <<>>
        /\ \E k \in 1..Len(devs) :
              k # j /\ devs[k].type # "router" /\ devs[k].ip = devs[j].ip } }

\* mutant: the addresses are compared only between two endpoints
checksDuplicateIPsBothEnds(sourceDevice, targetDevice) ==
    isEndpointDevice(sourceDevice) /\ isEndpointDevice(targetDevice)

\* if (isEndpointDevice(sourceDevice) || isEndpointDevice(targetDevice))
checksDuplicateIPs(sourceDevice, targetDevice) ==
    isEndpointDevice(sourceDevice) \/ isEndpointDevice(targetDevice)

\* addConnection between two routers: the backbone network and one new
\* interface on each
addBackbone(devs, conns, connection, sourceDevice, targetDevice) ==
    Let(allocateBackboneNetwork(devs), LAMBDA net :
    Let(createRouterInterface(sourceDevice, nextEthName(sourceDevice), net.sourceIP,
                              net.subnet), LAMBDA sourceInterface :
    Let(createRouterInterface(targetDevice, nextEthName(targetDevice), net.targetIP,
                              net.subnet), LAMBDA targetInterface :
        Topology([i \in 1..Len(devs) |->
                     IF devs[i].id = sourceDevice.id
                     THEN [devs[i] EXCEPT !.interfaces = Append(@, sourceInterface)]
                     ELSE IF devs[i].id = targetDevice.id
                     THEN [devs[i] EXCEPT !.interfaces = Append(@, targetInterface)]
                     ELSE devs[i]],
                 Append(conns, [sourceInterfaceId |-> sourceInterface.id,
                                targetInterfaceId |-> targetInterface.id] @@ connection)))))

\* the state addConnection returns
addConnectionState(devs, conns, connection) ==
    Let(Find(devs, LAMBDA d : d.id = connection.source), LAMBDA sourceDevice :
    Let(Find(devs, LAMBDA d : d.id = connection.target), LAMBDA targetDevice :
        IF sourceDevice = NoDevice \/ targetDevice = NoDevice
        THEN Topology(devs, conns)
        ELSE IF duplicateConnection(conns, connection)
        THEN Topology(devs, conns)
        ELSE IF ~isRouterDevice(sourceDevice) /\ ~isRouterDevice(targetDevice)
        THEN Topology(devs, conns)
        ELSE IF checksDuplicateIPs(sourceDevice, targetDevice) /\ duplicateIPs(devs) # {}
        THEN Topology(devs, conns)
        ELSE IF isRouterDevice(sourceDevice) /\ isRouterDevice(targetDevice)
        THEN Let(getLanInterface(sourceDevice), LAMBDA sourceLan :
             Let(getLanInterface(targetDevice), LAMBDA targetLan :
                 IF /\ sourceLan # NoIface
                    /\ targetLan # NoIface
                    /\ deriveSubnet(sourceLan.ip, maskOf(sourceLan))
                          = deriveSubnet(targetLan.ip, maskOf(targetLan))
                 THEN Topology(devs, conns)
                 ELSE addBackbone(devs, conns, connection, sourceDevice, targetDevice)))
        ELSE Let(IF isRouterDevice(sourceDevice) THEN sourceDevice ELSE targetDevice,
                 LAMBDA router :
             Let(IF isRouterDevice(sourceDevice) THEN targetDevice ELSE sourceDevice,
                 LAMBDA endpoint :
             Let(getLanInterface(router), LAMBDA lanInterface :
                 IF lanInterface = NoIface
                 THEN Topology(devs, conns)
                 ELSE IF lanInterface.ip = endpoint.ip
                 THEN Topology(devs, conns)
                 ELSE IF ~isInSameSubnetHelper(lanInterface.ip, maskOf(lanInterface),
                                               endpoint.ip)
                 THEN Topology(devs, conns)
                 ELSE Topology(devs, Append(conns, connection)))))))

topologyFrame == <<pc, simulationType, args, walk, requestRoute, thrown, simulationResult,
                   browser>>

addConnection(connection) ==
    /\ pc = "idle"
    /\ \E next \in {addConnectionState(devices, connections, connection)} :
          /\ devices' = next.devices
          /\ connections' = next.connections
    /\ UNCHANGED topologyFrame

\* mutant: every interface other than LAN goes from the two ends
withoutInterfacesOtherThanLan(devs, connection, sourceIfaceId, targetIfaceId) ==
    [i \in 1..Len(devs) |->
        IF devs[i].id \in {connection.source, connection.target}
        THEN [devs[i] EXCEPT !.interfaces = SelectSeq(@, LAMBDA iface : iface.name = "LAN")]
        ELSE devs[i]]

\* interfaces?.filter((iface) => iface.id !== id) on the two ends of a connection
withoutInterfaces(devs, connection, sourceIfaceId, targetIfaceId) ==
    [i \in 1..Len(devs) |->
        IF devs[i].id = connection.source
        THEN [devs[i] EXCEPT !.interfaces = SelectSeq(@, LAMBDA iface : iface.id # sourceIfaceId)]
        ELSE IF devs[i].id = connection.target
        THEN [devs[i] EXCEPT !.interfaces = SelectSeq(@, LAMBDA iface : iface.id # targetIfaceId)]
        ELSE devs[i]]

\* the first pair of interfaces other than LAN, one on each router, on the
\* same network: the pair a connection without interface ids is taken to use
sharedPair(sourceDevice, targetDevice) ==
    Let({ p \in (1..Len(sourceDevice.interfaces)) \X (1..Len(targetDevice.interfaces)) :
            /\ sourceDevice.interfaces[p[1]].name # "LAN"
            /\ targetDevice.interfaces[p[2]].name # "LAN"
            /\ getNetwork(sourceDevice.interfaces[p[1]].ip)
                  = getNetwork(targetDevice.interfaces[p[2]].ip) }, LAMBDA pairs :
        IF pairs = {} THEN <<>>
        ELSE CHOOSE p \in pairs :
                \A q \in pairs : p[1] < q[1] \/ (p[1] = q[1] /\ p[2] <= q[2]))

\* the device list deleteConnection returns
deleteConnectionDevices(devs, connection) ==
    IF sourceInterfaceIdOf(connection) # "" /\ targetInterfaceIdOf(connection) # ""
    THEN withoutInterfaces(devs, connection, sourceInterfaceIdOf(connection),
                           targetInterfaceIdOf(connection))
    ELSE Let(Find(devs, LAMBDA d : d.id = connection.source), LAMBDA sourceDevice :
         Let(Find(devs, LAMBDA d : d.id = connection.target), LAMBDA targetDevice :
             IF /\ sourceDevice # NoDevice
                /\ targetDevice # NoDevice
                /\ isRouterDevice(sourceDevice)
                /\ isRouterDevice(targetDevice)
             THEN Let(sharedPair(sourceDevice, targetDevice), LAMBDA pair :
                      IF pair = <<>> THEN devs
                      ELSE IF sourceDevice.interfaces[pair[1]].id = ""
                              \/ targetDevice.interfaces[pair[2]].id = ""
                      THEN devs
                      ELSE withoutInterfaces(devs, connection,
                                             sourceDevice.interfaces[pair[1]].id,
                                             targetDevice.interfaces[pair[2]].id))
             ELSE devs))

deleteConnection(id) ==
    /\ pc = "idle"
    /\ IF \E k \in 1..Len(connections) : connections[k].id = id
       THEN \E connection \in {connections[CHOOSE k \in 1..Len(connections) :
                                    /\ connections[k].id = id
                                    /\ \A j \in 1..(k - 1) : connections[j].id # id]} :
               /\ devices' = deleteConnectionDevices(devices, connection)
               /\ connections' = SelectSeq(connections, LAMBDA c : c.id # id)
       ELSE UNCHANGED <<devices, connections>>
    /\ UNCHANGED topologyFrame

addDevice(device) ==
    /\ pc = "idle"
    /\ devices' = Append(devices, device)
    /\ UNCHANGED connections
    /\ UNCHANGED topologyFrame

deleteDevice(id) ==
    /\ pc = "idle"
    /\ devices' = SelectSeq(devices, LAMBDA d : d.id # id)
    /\ connections' = SelectSeq(connections, LAMBDA c : c.source # id /\ c.target # id)
    /\ UNCHANGED topologyFrame

\* a PC with the address of PC1
NewPC9 == NewDevice("pc9", NamePC(9), "pc", PC1ip)

\* the devices the panel adds during a session
DevicePool == { NewPC9 }

\* the devices the session deletes
Deleted == { "pc9", "r3" }

\* the topologies a session starts from: three routers and a PC without
\* connection, or R1 and R2 joined by a connection that carries no interface
\* ids and a device of type server at the address of PC1
TopologySnapshots ==
    { Topology(<<NewRouter("r1", NameR(1), R1ip), NewRouter("r2", NameR(2), R2ip),
                 NewRouter("r3", NameR(3), R3ip),
                 NewDevice("pc1", NamePC(1), "pc", PC1ip)>>, <<>>),
      Topology(<<WithBackbone(NewRouter("r1", NameR(1), R1ip), "eth1", IP(10, 0, 0, 1)),
                 WithBackbone(NewRouter("r2", NameR(2), R2ip), "eth1", IP(10, 0, 0, 2)),
                 NewDevice("srv1", NameSrv1, "server", PC1ip)>>, <<Conn("r1", "r2")>>) }

TopologyInit ==
    /\ \E snap \in TopologySnapshots :
          /\ devices = snap.devices
          /\ connections = snap.connections
    /\ pc = "idle"
    /\ simulationType = "none"
    /\ args = NoArgs
    /\ walk = NoWalk
    /\ requestRoute = NoResult
    /\ thrown = FALSE
    /\ simulationResult = NoResult
    /\ browser = NoBrowser

\* the connections the canvas can ask for: any two devices, in either order,
\* a device with itself, and a device that is not there
ConnectionArgs(devs) ==
    { Conn(a, b) : a \in {devs[i].id : i \in 1..Len(devs)},
                   b \in {devs[i].id : i \in 1..Len(devs)} \cup {"gone"} }

\* the largest number of connections the canvas adds to
MaxConns == 2

TopologyNext ==
    \/ \E device \in DevicePool :
          /\ \A i \in 1..Len(devices) : devices[i].id # device.id
          /\ addDevice(device)
    \/ \E id \in Deleted : deleteDevice(id)
    \/ \E connection \in ConnectionArgs(devices) :
          /\ Len(connections) < MaxConns \/ duplicateConnection(connections, connection)
          /\ addConnection(connection)
    \/ \E k \in 1..Len(connections) : deleteConnection(connections[k].id)
    \/ deleteConnection("gone")

SpecTopology == TopologyInit /\ [][TopologyNext]_vars

(***************************************************************************)
(* Load and import normalisation (ensureRouterLanInterface), device        *)
(* creation and the device editor.                                         *)
(***************************************************************************)
\* iface.subnet: optional
subnetOf(iface) == IF "subnet" \in DOMAIN iface THEN iface.subnet ELSE <<>>

\* const fallbackIP = device.ip && device.ip !== '' ? device.ip : '192.168.1.1'
fallbackIPOf(device) == IF device.ip # <<>> THEN device.ip ELSE IP(192, 168, 1, 1)

\* interfaces.findIndex((iface) => iface.name === 'LAN'), 0 for -1
lanIndexOf(interfaces) ==
    IF \E k \in 1..Len(interfaces) : interfaces[k].name = "LAN"
    THEN CHOOSE k \in 1..Len(interfaces) :
            /\ interfaces[k].name = "LAN"
            /\ \A j \in 1..(k - 1) : interfaces[j].name # "LAN"
    ELSE 0

\* the LAN interface ensureRouterLanInterface stores in place of the one found
normalizedLan(lanIface, fallbackIP) ==
    Let(IF lanIface.ip # <<>> THEN lanIface.ip ELSE fallbackIP, LAMBDA lanIP :
    Let(maskOf(lanIface), LAMBDA mask :
        [subnet |-> IF subnetOf(lanIface) # <<>> THEN subnetOf(lanIface)
                    ELSE deriveSubnet(lanIP, mask)]
        @@ [lanIface EXCEPT !.ip = lanIP, !.subnetMask = mask]))

\* mutant: the primary address of the router is left as the file has it
ensureRouterLanInterfaceKeepIp(device) ==
    IF ~isRouterDevice(device) THEN device
    ELSE Let(lanIndexOf(device.interfaces), LAMBDA lanIndex :
             IF lanIndex > 0
             THEN [device EXCEPT
                     !.interfaces[lanIndex] = normalizedLan(@, fallbackIPOf(device))]
             ELSE [device EXCEPT
                     !.interfaces =
                         <<[subnet |-> deriveSubnet(fallbackIPOf(device), DEFAULT_SUBNET_MASK)]
                           @@ Iface(device.id \o "-lan", "LAN", fallbackIPOf(device),
                                    DEFAULT_SUBNET_MASK)>> \o @])

ensureRouterLanInterface(device) ==
    IF ~isRouterDevice(device) THEN device
    ELSE Let(lanIndexOf(device.interfaces), LAMBDA lanIndex :
             IF lanIndex > 0
             THEN Let(normalizedLan(device.interfaces[lanIndex], fallbackIPOf(device)),
                      LAMBDA lan :
                      [device EXCEPT
                         !.ip = IF device.ip # <<>> THEN device.ip ELSE lan.ip,
                         !.interfaces[lanIndex] = lan])
             ELSE [device EXCEPT
                     !.ip = fallbackIPOf(device),
                     !.interfaces =
                         <<[subnet |-> deriveSubnet(fallbackIPOf(device), DEFAULT_SUBNET_MASK)]
                           @@ Iface(device.id \o "-lan", "LAN", fallbackIPOf(device),
                                    DEFAULT_SUBNET_MASK)>> \o @])

normalizeDevices(devs) == [i \in 1..Len(devs) |-> ensureRouterLanInterface(devs[i])]

\* importTopology: the devices of the file are normalised, its connections
\* taken as they are, and the simulation result is cleared
importTopology(file) ==
    /\ pc = "idle"
    /\ devices' = normalizeDevices(file.devices)
    /\ connections' = file.connections
    /\ simulationResult' = NoResult
    /\ UNCHANGED <<pc, simulationType, args, walk, requestRoute, thrown, browser>>

\* isValidSubnetMask of utils/subnetUtils.ts
validMasks ==
    { IP(255, 255, 255, 0), IP(255, 255, 0, 0), IP(255, 0, 0, 0), IP(255, 255, 255, 128),
      IP(255, 255, 255, 192), IP(255, 255, 255, 224), IP(255, 255, 255, 240),
      IP(255, 255, 255, 248), IP(255, 255, 255, 252) }

isValidSubnetMask(mask) ==
    /\ Len(Split(mask)) = 4
    /\ \A i \in 1..4 : \E p \in {Number(Split(mask)[i])} : ~isNaN(p) /\ p >= 0 /\ p <= 255
    /\ mask \in validMasks

\* DeviceEditor.handleSave refuses the edit
editRefused(device, ip, lanSubnetMask) ==
    Let(\E k \in 1..Len(connections) :
            connections[k].source = device.id \/ connections[k].target = device.id,
        LAMBDA hasConnections :
        \/ /\ device.type # "router"
           /\ ip # device.ip
           /\ hasConnections
           /\ calculateSubnet(device.ip, DEFAULT_SUBNET_MASK)
                 # calculateSubnet(ip, DEFAULT_SUBNET_MASK)
        \/ ~validateIPAddress(ip)
        \/ /\ device.type = "router"
           /\ Let(getLanInterface(device), LAMBDA lanInterface :
                  \/ /\ hasConnections
                     /\ calculateSubnet(IF lanInterface.ip # <<>> THEN lanInterface.ip
                                        ELSE device.ip, maskOf(lanInterface))
                           # calculateSubnet(ip, lanSubnetMask)
                  \/ ~isValidSubnetMask(lanSubnetMask)))

\* the interfaces DeviceEditor.handleSave hands to updateDevice
editedInterfaces(device, ip, lanSubnetMask) ==
    [k \in 1..Len(device.interfaces) |->
        IF device.type = "router" /\ device.interfaces[k].name = "LAN"
        THEN [subnet |-> calculateSubnet(ip, lanSubnetMask)]
             @@ [device.interfaces[k] EXCEPT !.ip = ip, !.subnetMask = lanSubnetMask]
        ELSE IF device.type # "router" /\ device.interfaces[k].name = "eth0"
        THEN [device.interfaces[k] EXCEPT !.ip = ip]
        ELSE device.interfaces[k]]

\* DeviceEditor.handleSave: the address, and for a router the LAN mask, of
\* the device at position i
editDevice(i, ip, lanSubnetMask) ==
    /\ pc = "idle"
    /\ i \in 1..Len(devices)
    /\ devices' = IF editRefused(devices[i], ip, lanSubnetMask) THEN devices
                  ELSE [j \in 1..Len(devices) |->
                          IF devices[j].id = devices[i].id
                          THEN [devices[j] EXCEPT
                                  !.ip = ip,
                                  !.interfaces = editedInterfaces(devices[i], ip, lanSubnetMask)]
                          ELSE devices[j]]
    /\ UNCHANGED connections
    /\ UNCHANGED topologyFrame

\* a router as a file of an earlier version has it: interfaces as given
FileRouter(id, name, ip, interfaces) ==
    [id |-> id, name |-> name, type |-> "router", ip |-> ip, interfaces |-> interfaces,
     routingTable |-> <<>>, dnsRecords |-> <<>>]

\* files without fault: routers without LAN interface, with and without
\* primary address, a LAN interface without address, a router without
\* primary address, and devices as the panel creates them
SoundFiles ==
    { Topology(<<FileRouter("old1", NameR(1), R1ip,
                            <<Iface("old1-eth1", "eth1", IP(10, 0, 0, 1), BACKBONE_MASK)>>),
                 FileRouter("old2", NameR(2), <<>>, <<>>),
                 NewDevice("pc1", NamePC(1), "pc", PC1ip)>>,
               <<Conn("pc1", "old1")>>),
      Topology(<<FileRouter("old3", NameR(3), R3ip, <<Iface("old3-lan", "LAN", <<>>, <<>>)>>),
                 FileRouter("old4", NameR(4), <<>>,
                            <<Iface("old4-lan", "LAN", R2ip, DEFAULT_SUBNET_MASK)>>),
                 NewRouter("r1", NameR(1), R1ip)>>, <<>>) }

\* the devices of a file written by hand that normalisation leaves at fault:
\* a LAN address other than the primary address, two LAN interfaces, a PC
\* with two interfaces
FaultyIds == {"bad1", "bad2", "bad3"}

FaultyFiles ==
    { Topology(<<FileRouter("bad1", NameR(1), R1ip,
                            <<Iface("bad1-lan", "LAN", R2ip, DEFAULT_SUBNET_MASK)>>),
                 FileRouter("bad2", NameR(2), R2ip,
                            <<Iface("bad2-lan", "LAN", R2ip, DEFAULT_SUBNET_MASK),
                              Iface("bad2-lan2", "LAN", R3ip, DEFAULT_SUBNET_MASK)>>),
                 [NewDevice("bad3", NamePC(3), "pc", PC3ip) EXCEPT
                    !.interfaces = Append(@, Iface("bad3-eth1", "eth1", PC2ip,
                                                   DEFAULT_SUBNET_MASK))]>>, <<>>) }

ImportFiles == SoundFiles \cup FaultyFiles

\* the devices the panel creates in a session
CreatedPool == { NewRouter("r9", NameR(9), IP(192, 168, 9, 1)), NewPC9 }

\* the addresses and LAN masks typed into the editor
EditedIps == { IP(192, 168, 1, 77), IP(172, 16, 0, 1), IP(192, 168, 1, 0) }
EditedMasks == { IP(255, 255, 255, 0), IP(255, 255, 0, 0), IP(255, 0, 255, 0) }

\* loadFromStorage: nothing saved, or a saved file, normalised
ImportInit ==
    /\ \E file \in {Topology(<<>>, <<>>)} \cup SoundFiles :
          /\ devices = normalizeDevices(file.devices)
          /\ connections = file.connections
    /\ pc = "idle"
    /\ simulationType = "none"
    /\ args = NoArgs
    /\ walk = NoWalk
    /\ requestRoute = NoResult
    /\ thrown = FALSE
    /\ simulationResult = NoResult
    /\ browser = NoBrowser

ImportNext ==
    \/ \E file \in ImportFiles : importTopology(file)
    \/ \E device \in CreatedPool :
          /\ \A i \in 1..Len(devices) : devices[i].id # device.id
          /\ addDevice(device)
    \/ \E i \in 1..Len(devices) : \E ip \in EditedIps : \E mask \in EditedMasks :
          editDevice(i, ip, mask)

SpecImport == ImportInit /\ [][ImportNext]_vars

(***************************************************************************)
(* Pings in topologies where two routers have their LAN interface on the   *)
(* network of the PCs.                                                     *)
(***************************************************************************)
R4ip == IP(192, 168, 1, 2)
PC3Lan1ip == IP(192, 168, 1, 30)

\* R1 and R4 on 192.168.1.0, in either order in the device list; PC3 is
\* connected to R4, PC1 to R1, to R4 or to both
GatewaySnapshots ==
    { Topology(
        (IF r1First
         THEN <<WithTable(NewRouter("r1", NameR(1), R1ip), <<Route(Net1, DirectWord, 0)>>),
                WithTable(NewRouter("r4", NameR(4), R4ip), <<Route(Net1, DirectWord, 0)>>)>>
         ELSE <<WithTable(NewRouter("r4", NameR(4), R4ip), <<Route(Net1, DirectWord, 0)>>),
                WithTable(NewRouter("r1", NameR(1), R1ip), <<Route(Net1, DirectWord, 0)>>)>>)
        \o <<NewDevice("pc1", NamePC(1), "pc", PC1ip),
             NewDevice("pc3", NamePC(3), "pc", PC3Lan1ip)>>,
        links \o <<Conn("r4", "pc3")>>) :
        r1First \in BOOLEAN,
        links \in { <<Conn("pc1", "r1")>>, <<Conn("pc1", "r4")>>,
                    <<Conn("pc1", "r1"), Conn("pc1", "r4")>> } }

GatewayInit ==
    /\ \E snap \in GatewaySnapshots :
          /\ devices = snap.devices
          /\ connections = snap.connections
    /\ pc = "idle"
    /\ simulationType = "none"
    /\ args = NoArgs
    /\ walk = NoWalk
    /\ requestRoute = NoResult
    /\ thrown = FALSE
    /\ simulationResult = NoResult
    /\ browser = NoBrowser

\* the primary addresses of two devices, as source and as destination
PairArgs(devs) == {<<devs[i].ip, devs[j].ip>> : i, j \in 1..Len(devs)}

GatewayNext ==
    \/ (\E a \in PairArgs(devices) : simulatePing(a[1], a[2])) /\ UNCHANGED browser
    \/ LoopStep /\ UNCHANGED browser
    \/ ReturnPing /\ UNCHANGED browser
    \/ clearSimulation /\ UNCHANGED browser

SpecGateway == GatewayInit /\ [][GatewayNext]_vars

(***************************************************************************)
(* Connections made by addConnection under LAN masks other than /24,       *)
(* followed by pings.                                                      *)
(***************************************************************************)
WideLanIp == IP(172, 16, 0, 1)
WideFarIp == IP(172, 16, 5, 10)
WideNearIp == IP(172, 16, 0, 20)

\* NewRouter after DeviceEditor.handleSave set the mask of its LAN interface
WithLanMask(router, mask) ==
    [router EXCEPT !.interfaces = editedInterfaces(router, router.ip, mask)]

\* R1 with the LAN 172.16.0.0/16 and two PCs in it, one of them outside
\* 172.16.0.0/24; R2 with the LAN 192.168.2.0/25 and PC2 in it; no connection
MaskDevices ==
    << WithTable(WithLanMask(NewRouter("r1", NameR(1), WideLanIp), IP(255, 255, 0, 0)),
                 <<Route(IP(172, 16, 0, 0), DirectWord, 0)>>),
       WithTable(WithLanMask(NewRouter("r2", NameR(2), R2ip), IP(255, 255, 255, 128)),
                 <<Route(Net2, DirectWord, 0)>>),
       NewDevice("pc1", NamePC(1), "pc", WideFarIp),
       NewDevice("pc3", NamePC(3), "pc", WideNearIp),
       NewDevice("pc2", NamePC(2), "pc", PC2ip) >>

MaskInit ==
    /\ devices = MaskDevices
    /\ connections = <<>>
    /\ pc = "idle"
    /\ simulationType = "none"
    /\ args = NoArgs
    /\ walk = NoWalk
    /\ requestRoute = NoResult
    /\ thrown = FALSE
    /\ simulationResult = NoResult
    /\ browser = NoBrowser

\* the connections drawn between a router and another device, either way
EndpointLinks(devs) ==
    { c \in ConnectionArgs(devs) :
        \E i, j \in 1..Len(devs) :
            /\ {devs[i].id, devs[j].id} = {c.source, c.target}
            /\ devs[i].type = "router"
            /\ devs[j].type # "router" }

\* pings from a device that is not a router to any device
EndpointPings(devs) ==
    { a \in PairArgs(devs) : \E i \in 1..Len(devs) : devs[i].ip = a[1] /\ devs[i].type # "router" }

MaskNext ==
    \/ \E c \in EndpointLinks(devices) : addConnection(c)
    \/ (\E a \in EndpointPings(devices) : simulatePing(a[1], a[2])) /\ UNCHANGED browser
    \/ LoopStep /\ UNCHANGED browser
    \/ ReturnPing /\ UNCHANGED browser
    \/ clearSimulation /\ UNCHANGED browser

SpecMasks == MaskInit /\ [][MaskNext]_vars

(***************************************************************************)
(* Backbone allocation among routers whose LAN is itself a 10.0.x network. *)
(***************************************************************************)
\* three routers without connection: with the LANs 192.168.1.0, 192.168.2.0
\* and 192.168.3.0, or with R1 on 10.0.0.0 and R3 on 10.0.1.0
BackboneSnapshots ==
    { Topology(<<NewRouter("r1", NameR(1), R1ip), NewRouter("r2", NameR(2), R2ip),
                 NewRouter("r3", NameR(3), R3ip)>>, <<>>),
      Topology(<<NewRouter("r1", NameR(1), IP(10, 0, 0, 1)), NewRouter("r2", NameR(2), R2ip),
                 NewRouter("r3", NameR(3), IP(10, 0, 1, 1))>>, <<>>) }

BackboneInit ==
    /\ \E snap \in BackboneSnapshots :
          /\ devices = snap.devices
          /\ connections = snap.connections
    /\ pc = "idle"
    /\ simulationType = "none"
    /\ args = NoArgs
    /\ walk = NoWalk
    /\ requestRoute = NoResult
    /\ thrown = FALSE
    /\ simulationResult = NoResult
    /\ browser = NoBrowser

BackboneNext ==
    \/ \E connection \in ConnectionArgs(devices) : addConnection(connection)
    \/ \E k \in 1..Len(connections) : deleteConnection(connections[k].id)

SpecBackbone == BackboneInit /\ [][BackboneNext]_vars

(***************************************************************************)
(* Properties.                                                             *)
(***************************************************************************)
DeviceById(id) == Find(devices, LAMBDA d : d.id = id)

TableOf(id) == DeviceById(id).routingTable

Linked(a, b) ==
    \E i \in 1..Len(connections) :
        {connections[i].source, connections[i].target} = {a, b}

\* the ping from sourceIP to destIP has delivered its result to the store
PingDone(sourceIP, destIP) ==
    /\ pc = "done"
    /\ ~thrown
    /\ simulationType = "ping"
    /\ args.sourceIP = sourceIP
    /\ args.destIP = destIP

\* the device the walk starts from
Source == Find(devices, LAMBDA d : d.ip = args.sourceIP)

\* simulateRouting got past its prologue into the walk
WalkStarted ==
    /\ validateIP(args.sourceIP)
    /\ validateIP(args.destIP)
    /\ Source # NoDevice
    /\ args.sourceIP # args.destIP

\* the device d hands the packet to, NoDevice when the walk ends at d; the
\* loop check and the hop budget play no part in it
NextOf(d, destIP) ==
    LET o == LoopBody(devices, connections, Walk(d, 0, {}, <<>>, <<>>), destIP, FALSE)
    IN  IF o.ret \/ o.threw THEN NoDevice ELSE o.walk.currentDevice

\* the number of distinct devices the hand-over from d visits before it
\* comes back to one of them; 0 when it never does
RECURSIVE CycleClosesAt(_, _, _)
CycleClosesAt(d, destIP, seen) ==
    LET nx == NextOf(d, destIP)
    IN  IF nx = NoDevice THEN 0
        ELSE IF nx.id \in seen THEN Cardinality(seen)
        ELSE CycleClosesAt(nx, destIP, seen \cup {nx.id})

\* the names of the devices the hand-over from d passes, up to the first
\* repetition and to fuel hand-overs
RECURSIVE Traversed(_, _, _, _)
Traversed(d, destIP, seen, fuel) ==
    <<d.name>> \o
    (IF fuel = 0 THEN <<>>
     ELSE LET nx == NextOf(d, destIP)
          IN  IF nx = NoDevice \/ nx.id \in seen THEN <<>>
              ELSE Traversed(nx, destIP, seen \cup {nx.id}, fuel - 1))

DetourTables ==
    { <<Route(Net2, NameR(3), 1), Route(Net2, NameR(2), 2)>>,
      <<Route(Net2, NameR(2), 2), Route(Net2, NameR(3), 1)>> }

\* R1 holds a metric-1 route over R3 and a metric-2 route over R2, the link
\* R1 - R3 is missing, and R2 delivers to its own LAN
DetourCase ==
    /\ DeviceById("r3") # NoDevice
    /\ TableOf("r1") \in DetourTables
    /\ ~Linked("r1", "r3")
    /\ TableOf("r2") = <<Route(Net2, DirectWord, 0), Route(Net1, NameR(1), 1)>>

\* the walk is at a router and about to look the destination up
AtRouter ==
    /\ pc = "loop"
    /\ walk.hopCount < maxHops
    /\ walk.currentDevice.ip # args.destIP
    /\ walk.currentDevice.type = "router"

Candidates == MatchingRoutes(walk.currentDevice.routingTable, args.destIP)

FeasibleAt(r) ==
    TryRoute(devices, connections, walk.currentDevice, args.destIP, r) = Feasible

\* the step after the lookup uses route r
ContinuesVia(r) ==
    IF isDirect(r.nextHop)
    THEN /\ pc' = "return"
         /\ requestRoute'.success
         /\ requestRoute'.path =
               Append(walk.path, Find(devices, LAMBDA d : d.ip = args.destIP).name)
    ELSE LET nextRouter == FindNextRouter(devices, r.nextHop)
         IN  IF nextRouter.id \in walk.visitedDevices
             THEN /\ pc' = "return"
                  /\ ~requestRoute'.success
                  /\ requestRoute'.message.kind = "loop"
             ELSE /\ pc' = "loop"
                  /\ walk'.currentDevice = nextRouter
                  /\ walk'.path = Append(walk.path, nextRouter.name)

\* C1: at every router the walk reaches, the route used is a feasible
\* candidate such that every candidate of smaller metric is infeasible, and
\* the walk continues via it (direct delivery, or forwarding to its next
\* hop); without feasible candidate the resolution fails there.  In
\* particular, with the metric-1 next hop unlinked and the metric-2 route
\* feasible, the ping succeeds over the metric-2 route.
C1_FirstFeasibleRoute ==
    [][ /\ AtRouter =>
            IF \E i \in 1..Len(Candidates) : FeasibleAt(Candidates[i])
            THEN \E i \in 1..Len(Candidates) :
                    /\ FeasibleAt(Candidates[i])
                    /\ \A j \in 1..Len(Candidates) :
                          Candidates[j].metric < Candidates[i].metric
                          => ~FeasibleAt(Candidates[j])
                    /\ ContinuesVia(Candidates[i])
            ELSE pc' = "return" /\ ~requestRoute'.success
                 /\ requestRoute'.path = walk.path
        /\ (DetourCase /\ pc = "return" /\ pc' = "done" /\ simulationType = "ping"
              /\ args.sourceIP = PC1ip /\ args.destIP = PC2ip)
            => /\ simulationResult'.success
               /\ simulationResult'.path = <<NamePC(1), NameR(1), NameR(2), NamePC(2)>>
      ]_vars

C1_Witness ==
    /\ DetourCase
    /\ PingDone(PC1ip, PC2ip)
    /\ simulationResult.success
    /\ simulationResult.path = <<NamePC(1), NameR(1), NameR(2), NamePC(2)>>

DeviceByName(name) == Find(devices, LAMBDA d : d.name = name)

\* the index, in ascending-metric order, of the route router d uses
UsedIndex(d) ==
    ChosenIndex(devices, connections, d, args.destIP,
                SortByMetric(MatchingRoutes(d.routingTable, args.destIP)))

\* the routes router d tried and failed before the one it uses
FailedBefore(d) ==
    FailedRoutes(devices, connections, d, args.destIP,
                 SortByMetric(MatchingRoutes(d.routingTable, args.destIP)), UsedIndex(d) - 1)

\* C2 as stated: whenever a router on the path used the i-th route with
\* i > 1, the result's step trace holds an entry of that router listing the
\* failed routes 1..i-1, each with its reason.
C2_Original ==
    (pc = "done" /\ ~thrown /\ Len(walk.path) > 1)
    => \A k \in 1..(Len(walk.path) - 1) :
          LET d == DeviceByName(walk.path[k])
          IN  (d.type = "router" /\ UsedIndex(d) > 1)
              => \E n \in 1..Len(simulationResult.steps) :
                    /\ simulationResult.steps[n].router = d.name
                    /\ \A j \in 1..Len(FailedBefore(d)) :
                          \E m \in 1..Len(simulationResult.steps[n].action.info) :
                              simulationResult.steps[n].action.info[m]
                                 = <<FailedBefore(d)[j].reason>>

\* a resolution that used a route after a failed one
C2_FallbackTaken ==
    /\ pc = "done" /\ ~thrown /\ Len(walk.path) > 1
    /\ \E k \in 1..(Len(walk.path) - 1) :
          /\ DeviceByName(walk.path[k]).type = "router"
          /\ UsedIndex(DeviceByName(walk.path[k])) > 1

\* C3 as stated: whenever the walk enters a forwarding cycle, the result is
\* the loop-detected failure, within 10 hops.
C3_Original ==
    (pc = "return" /\ WalkStarted /\ CycleClosesAt(Source, args.destIP, {Source.id}) > 0)
    => /\ ~requestRoute.success
       /\ requestRoute.message.kind = "loop"
       /\ walk.hopCount <= maxHops

\* C3 amended: a walk that comes back to a device after visiting at most 10
\* distinct devices (the source included) ends with the loop-detected
\* failure, carrying the devices visited; a cycle that closes later ends with
\* the hop-budget failure; neither ends in success.
C3_LoopDetected ==
    (pc = "return" /\ WalkStarted /\ CycleClosesAt(Source, args.destIP, {Source.id}) > 0)
    => /\ ~requestRoute.success
       /\ IF CycleClosesAt(Source, args.destIP, {Source.id}) <= 10
          THEN /\ requestRoute.message.kind = "loop"
               /\ Len(requestRoute.path) = CycleClosesAt(Source, args.destIP, {Source.id})
               /\ requestRoute.path = Traversed(Source, args.destIP, {Source.id}, 10)
          ELSE requestRoute.message.kind = "maxHops"

C3_Witness ==
    /\ pc = "return"
    /\ WalkStarted
    /\ CycleClosesAt(Source, args.destIP, {Source.id}) \in 3..10
    /\ requestRoute.message.kind = "loop"

\* C6: simulateRouting never throws; what it returns is a result record, and
\* a failure's path lists exactly the devices traversed before the failure
\* (none when the failure precedes the walk).
C6_NeverThrows ==
    /\ ~thrown
    /\ pc = "return"
        => /\ DOMAIN requestRoute = {"success", "path", "message", "steps"}
           /\ requestRoute.success \in BOOLEAN
           /\ ~requestRoute.success
               => requestRoute.path =
                    IF WalkStarted THEN Traversed(Source, args.destIP, {Source.id}, 10)
                    ELSE <<>>

C6_Witness ==
    /\ pc = "return"
    /\ ~requestRoute.success
    /\ args.destIP = Ghost
    /\ Len(requestRoute.path) >= 3

\* C7: every pass of the resolver's loop either ends the call or advances the
\* hop counter by one, and the counter never exceeds 10: the call ends after
\* at most 10 hop advances.
C7_HopBudget ==
    [][ /\ walk'.hopCount <= 10
        /\ pc = "loop"
            => \/ pc' \in {"return", "done"}
               \/ pc' = "loop" /\ walk'.hopCount = walk.hopCount + 1
      ]_vars

C7_Witness ==
    /\ pc = "return"
    /\ walk.hopCount = 10
    /\ Len(requestRoute.path) = 11
    /\ requestRoute.message.kind = "maxHops"

Malformed == {"badSourceIP", "badDestIP"}

\* C8 as stated: whenever the source or the destination fails
\* validateIPAddress, the result is the malformed-address failure with an
\* empty path.
C8_Original ==
    (pc = "return" /\ (~validateIPAddress(args.sourceIP) \/ ~validateIPAddress(args.destIP)))
    => /\ ~requestRoute.success
       /\ requestRoute.message.kind \in Malformed
       /\ requestRoute.path = <<>>

C8_Witness ==
    /\ pc = "return"
    /\ args.sourceIP = PC1ip
    /\ args.destIP = PC2ip \o <<"a">>
    /\ ~validateIPAddress(args.destIP)
    /\ requestRoute.message.kind = "allRoutesFailed"
    /\ requestRoute.path = <<NamePC(1), NameR(1), NameR(2)>>

\* the routers with an interface on the network of device d, in list order
RoutersOnNetworkOf(d) ==
    {i \in 1..Len(devices) :
        /\ devices[i].type = "router"
        /\ \E k \in 1..Len(devices[i].interfaces) :
              getNetwork(devices[i].interfaces[k].ip) = getNetwork(d.ip)}

FirstOf(S) == CHOOSE i \in S : \A j \in S : i <= j

\* C9: for an endpoint the walk is at, the no-gateway failure is returned
\* exactly when no router has an interface in its subnet, and the no-link
\* failure exactly when the first such router exists and no connection joins
\* the two.
C9_GatewayFailures ==
    pc = "return"
    => /\ requestRoute.message.kind = "noGateway"
           <=> /\ WalkStarted /\ Source.type # "router"
               /\ RoutersOnNetworkOf(Source) = {}
       /\ requestRoute.message.kind = "noLink"
           <=> /\ WalkStarted /\ Source.type # "router"
               /\ RoutersOnNetworkOf(Source) # {}
               /\ ~Linked(Source.id, devices[FirstOf(RoutersOnNetworkOf(Source))].id)

C9_Witness ==
    /\ pc = "return"
    /\ requestRoute.message = Message("noLink", <<NamePC(1), NameR(1)>>)
    /\ ~Linked("pc1", "r1")

C9_WitnessNoGateway ==
    /\ pc = "return"
    /\ requestRoute.message.kind = "noGateway"
    /\ args.sourceIP = PC3ip

\* C10: every DNS or HTTP resolution that succeeds carries the resolver's
\* path as requestPath and exactly its reverse as responsePath.
C10_ResponseReversed ==
    (pc = "done" /\ simulationType \in {"dns", "http"} /\ simulationResult.success)
    => /\ simulationResult.requestPath = requestRoute.path
       /\ Len(simulationResult.responsePath) = Len(simulationResult.requestPath)
       /\ \A i \in 1..Len(simulationResult.requestPath) :
             simulationResult.responsePath[i] =
                simulationResult.requestPath[Len(simulationResult.requestPath) + 1 - i]

C10_Witness ==
    /\ pc = "done"
    /\ simulationType = "dns"
    /\ simulationResult.success
    /\ simulationResult.requestPath = <<NamePC(1), NameR(1), NameR(2), NameDNS1>>
    /\ simulationResult.responsePath = <<NameDNS1, NameR(2), NameR(1), NamePC(1)>>

R1ToR2 == <<Route(Net2, NameR(2), 1)>>
R2ToR1 == <<Route(Net1, NameR(1), 1)>>
R2Direct == Route(Net2, DirectWord, 0)
R1Direct == Route(Net1, DirectWord, 0)

\* C4 as stated: with R1's table exactly {192.168.2.0 via R2, 1} and R2's
\* exactly {192.168.1.0 via R1, 1}, the ping PC1 -> PC2 succeeds with path
\* [PC1, R1, R2, PC2].
C4_Original ==
    (TableOf("r1") = R1ToR2 /\ TableOf("r2") = R2ToR1 /\ PingDone(PC1ip, PC2ip))
    => /\ simulationResult.success
       /\ simulationResult.path = <<NamePC(1), NameR(1), NameR(2), NamePC(2)>>

\* C4 amended: the ping PC1 -> PC2 succeeds with path [PC1, R1, R2, PC2] once
\* R2's table also holds the direct entry {192.168.2.0, direct, 0} for its
\* own LAN; with R2's table exactly {192.168.1.0 via R1, 1} it fails at R2
\* with the no-routing-table-entry failure and path [PC1, R1, R2].
C4_TwoRouterPing ==
    /\ (TableOf("r1") = R1ToR2 /\ TableOf("r2") = Append(R2ToR1, R2Direct)
          /\ PingDone(PC1ip, PC2ip))
        => /\ simulationResult.success
           /\ simulationResult.path = <<NamePC(1), NameR(1), NameR(2), NamePC(2)>>
    /\ (TableOf("r1") = R1ToR2 /\ TableOf("r2") = R2ToR1 /\ PingDone(PC1ip, PC2ip))
        => /\ ~simulationResult.success
           /\ simulationResult.message.kind = "noRoute"
           /\ simulationResult.path = <<NamePC(1), NameR(1), NameR(2)>>

C4_Witness ==
    /\ TableOf("r1") = R1ToR2
    /\ TableOf("r2") = Append(R2ToR1, R2Direct)
    /\ PingDone(PC1ip, PC2ip)
    /\ simulationResult.success

\* C5 as stated: after R1's only entry is deleted, the ping PC1 -> PC2 fails
\* with the no-routing-table-entry failure for 192.168.2.0 and path [PC1, R1].
C5_Original ==
    (TableOf("r1") = <<>> /\ TableOf("r2") = R2ToR1 /\ PingDone(PC1ip, PC2ip))
    => /\ ~simulationResult.success
       /\ simulationResult.message.kind = "noRoute"
       /\ simulationResult.path = <<NamePC(1), NameR(1)>>

\* C5 amended: after R1's only entry is deleted the ping PC1 -> PC2 fails with
\* the empty-routing-table failure and path [PC1, R1]; the
\* no-routing-table-entry failure for 192.168.2.0, with the same path, is
\* what a non-empty table of R1 without entry for that network gives.
C5_DeletedRoute ==
    /\ (TableOf("r1") = <<>> /\ PingDone(PC1ip, PC2ip))
        => /\ ~simulationResult.success
           /\ simulationResult.message.kind = "emptyTable"
           /\ simulationResult.message.info = <<NameR(1)>>
           /\ simulationResult.path = <<NamePC(1), NameR(1)>>
    /\ (TableOf("r1") = <<R1Direct>> /\ PingDone(PC1ip, PC2ip))
        => /\ ~simulationResult.success
           /\ simulationResult.message.kind = "noRoute"
           /\ simulationResult.message.info[3] = Net2
           /\ simulationResult.path = <<NamePC(1), NameR(1)>>

C5_Witness ==
    /\ TableOf("r1") = <<>>
    /\ TableOf("r2") = R2ToR1
    /\ PingDone(PC1ip, PC2ip)
    /\ simulationResult.message.kind = "emptyTable"

(***************************************************************************)
(* The DNS layer.                                                          *)
(***************************************************************************)
\* the DNS server the running query names
DnsServer == dnsDeviceOf(devices, args.destIP)

\* the records of d for the domain, compared as the lookups compare them
RecordsFor(d, domain) ==
    SelectSeq(d.dnsRecords, LAMBDA r : toLowerCase(r.domain) = toLowerCase(domain))

\* the query is over and its request path ended at the DNS server
DnsReached ==
    /\ pc = "done"
    /\ simulationType = "dns"
    /\ requestRoute # NoResult
    /\ requestRoute.success
    /\ requestRoute.path[Len(requestRoute.path)] = DnsServer.name

\* C11 as the specification states it: a DNS resolution whose server is
\* reached and holds no record for the queried domain returns a failure
\* (success = false) that says the domain is not registered.
C11_Original ==
    (DnsReached /\ RecordsFor(DnsServer, args.domain) = <<>>)
    => /\ ~simulationResult.success
       /\ simulationResult.responseLabel.kind = "dnsNoDomain"

\* the query PC1 -> DNS1 for a domain DNS1 has no record of: the result is a
\* success whose response label alone says that the domain does not exist
C11_Witness ==
    /\ DnsReached
    /\ args.sourceIP = PC1ip
    /\ args.domain = OtherDomain
    /\ RecordsFor(DnsServer, args.domain) = <<>>
    /\ simulationResult.success
    /\ simulationResult.message.kind = "dnsDone"
    /\ simulationResult.message.info[4] = <<>>
    /\ simulationResult.responseLabel.kind = "dnsNoDomain"

\* the devices that share the address the running query names
SameAddress == {i \in 1..Len(devices) : devices[i].ip = args.destIP}

\* C12: a DNS resolution that reports success has a request path ending at a
\* device of kind dns-server; when two devices share the DNS server's
\* address and the routing ends at the one that is no DNS server, the result
\* is the same-address failure, never a success.
C12_DnsEndpointChecked ==
    (pc = "done" /\ simulationType = "dns")
    => /\ simulationResult.success
          => /\ \E i \in 1..Len(devices) :
                   devices[i].name = simulationResult.path[Len(simulationResult.path)]
             /\ \A i \in 1..Len(devices) :
                   devices[i].name = simulationResult.path[Len(simulationResult.path)]
                   => devices[i].type = "dns" /\ devices[i].ip = args.destIP
       /\ ( /\ requestRoute # NoResult
            /\ requestRoute.success
            /\ \E i \in SameAddress :
                  /\ devices[i].type # "dns"
                  /\ devices[i].name = requestRoute.path[Len(requestRoute.path)] )
          => /\ ~simulationResult.success
             /\ simulationResult.message.kind = "dnsWrongDevice"
             /\ simulationResult.path = requestRoute.path

\* Web2 precedes DNS1 in the device list and has DNS1's address: the query
\* of PC1 is routed to Web2 and ends in the same-address failure
C12_Witness ==
    /\ pc = "done"
    /\ simulationType = "dns"
    /\ devices[1].id = "web2"
    /\ Cardinality(SameAddress) = 2
    /\ requestRoute # NoResult
    /\ requestRoute.success
    /\ requestRoute.path = <<NamePC(1), NameR(1), NameR(2), NameWeb2>>
    /\ ~simulationResult.success
    /\ simulationResult.message.kind = "dnsWrongDevice"

(***************************************************************************)
(* The HTTP layer, as the browser drives it.                               *)
(***************************************************************************)
\* the visit in progress or shown went through handleRequest and its DNS
\* lookup gave the address of an existing device
Resolved ==
    /\ browser.httpResult # NoResult
    /\ "dnsResult" \in DOMAIN browser.httpResult
    /\ browser.httpResult.dnsResult.success

\* the address the HTTP request of the visit is for
TargetIP ==
    IF "dnsResult" \in DOMAIN browser.httpResult
    THEN browser.httpResult.dnsResult.resolvedIP
    ELSE browser.request.targetIP

\* the first device with the target address, and the first web server with it
Owner == Find(devices, LAMBDA d : d.ip = TargetIP)
WebServer == Find(devices, LAMBDA d : d.type = "web" /\ d.ip = TargetIP)

\* C13: when the DNS record of the visited domain leads to an address whose
\* owner is no web server (a PC in the scenario), the HTTP answer computed
\* for the visit is the type-mismatch failure naming the owner and its kind;
\* the store's HTTP request for that address fails with its own
\* type-mismatch message, and that message is what the browser shows once
\* the DNS query has reached the DNS server.
C13_TypeMismatch ==
    (Resolved /\ WebServer = NoDevice)
    => /\ browser.httpResult.response =
             HTTPResponse(FALSE, 503, NoContent,
                          Text("notWebServer",
                               <<TargetIP, Owner.name, deviceTypeName(Owner.type)>>))
       /\ (browser.callback = "http" /\ pc = "done")
             => /\ ~simulationResult.success
                /\ simulationResult.message =
                      Message("httpWrongType", <<TargetIP, Owner.name, <<Owner.type>>>>)
                /\ simulationResult.httpStatusCode = 503
       /\ ( /\ browser.callback = "none"
            /\ browser.dnsResult = browser.httpResult.dnsResult )
             => /\ ~browser.httpResponse.success
                /\ browser.httpResponse.message =
                      <<"httpAborted",
                        Message("httpWrongType", <<TargetIP, Owner.name, <<Owner.type>>>>)>>

\* the scenario: DNS1 at 192.168.1.50 maps www.school.com to 192.168.1.100,
\* which a PC owns; the visit of www.school.com ends with the type mismatch
C13_Witness ==
    /\ browser.callback = "none"
    /\ browser.request # NoResult
    /\ browser.request.domain = SchoolDomain
    /\ Resolved
    /\ TargetIP = HostIp
    /\ dnsDeviceOf(devices, Dns50).dnsRecords = <<[domain |-> SchoolDomain, ip |-> HostIp]>>
    /\ Owner.type = "pc"
    /\ browser.dnsResult = browser.httpResult.dnsResult
    /\ browser.httpResult.response.message = <<"notWebServer", HostIp, NameHost, "PC">>
    /\ browser.httpResponse.message[1] = "httpAborted"
    /\ browser.httpResponse.message[2].kind = "httpWrongType"
    /\ browser.httpResponse.message[2].info = <<HostIp, NameHost, <<"pc">>>>

\* the HTTP answer computed for the visit, when one was computed
Answered == browser.httpResult # NoResult

\* the request of the visit is for the port the web server listens on
OnListenPort == portOr80(browser.request.port) = portOr80(portOf(WebServer))

C15_SnapshotUnchanged ==
    [][devices' = devices /\ connections' = connections]_vars

\* the walk PC1 -> PC2 went through R1, whose two candidates for 192.168.2.0
\* stand in the table with the larger metric first, and the table still
\* has that order
C15_Witness ==
    /\ PingDone(PC1ip, PC2ip)
    /\ TableOf("r1") = <<Route(Net2, NameR(2), 2), Route(Net2, NameR(3), 1)>>
    /\ Len(simulationResult.path) >= 3
    /\ simulationResult.path[2] = NameR(1)
    /\ simulationResult.path[3] = NameR(3)

C16_WitnessFailure ==
    /\ pc = "return"
    /\ simulationType = "ping"
    /\ simulationResult # NoResult
    /\ ~simulationResult.success
    /\ simulationResult.message.kind = "allRoutesFailed"
    /\ requestRoute = simulationResult

\* C17: for every address A that validateIP accepts and some device has as
\* its primary address, the resolution from A to A returns before the loop
\* with success and a path of one element, the name of the first device
\* with address A.
C17_SelfPing ==
    ( /\ simulationType = "ping"
      /\ args.sourceIP = args.destIP
      /\ validateIP(args.sourceIP)
      /\ \E i \in 1..Len(devices) : devices[i].ip = args.sourceIP )
    => /\ pc \in {"return", "done"}
       /\ requestRoute.success
       /\ Len(requestRoute.path) = 1
       /\ requestRoute.path[1] = Find(devices, LAMBDA d : d.ip = args.sourceIP).name
       /\ requestRoute.message.kind = "sameDevice"
       /\ pc = "done" => simulationResult = requestRoute

\* the router R2 pinged itself
C17_Witness ==
    /\ pc = "done"
    /\ simulationType = "ping"
    /\ args = [sourceIP |-> R2ip, destIP |-> R2ip]
    /\ simulationResult.success
    /\ simulationResult.path = <<NameR(2)>>

\* the address two devices share: the path holds the first of them
C17_WitnessTwin ==
    /\ pc = "done"
    /\ simulationType = "ping"
    /\ args = [sourceIP |-> DNSip, destIP |-> DNSip]
    /\ devices[1].id = "web2"
    /\ simulationResult.success
    /\ simulationResult.path = <<NameWeb2>>


\* the connections between two routers of the topology
RouterLinks ==
    { k \in 1..Len(connections) :
        /\ Find(devices, LAMBDA d : d.id = connections[k].source).type = "router"
        /\ Find(devices, LAMBDA d : d.id = connections[k].target).type = "router" }

\* the interface a connection uses on one of its routers: the one its
\* interface id names or, for a connection without ids, the one of the pair
\* on a shared network
LinkInterface(devs, c, end) ==
    Let(Find(devs, LAMBDA d : d.id = c[end]), LAMBDA router :
        IF sourceInterfaceIdOf(c) # ""
        THEN Let(IF end = "source" THEN sourceInterfaceIdOf(c) ELSE targetInterfaceIdOf(c),
                 LAMBDA id :
                 IF \E k \in 1..Len(router.interfaces) : router.interfaces[k].id = id
                 THEN router.interfaces[CHOOSE k \in 1..Len(router.interfaces) :
                                            router.interfaces[k].id = id]
                 ELSE NoIface)
        ELSE Let(sharedPair(Find(devs, LAMBDA d : d.id = c.source),
                            Find(devs, LAMBDA d : d.id = c.target)), LAMBDA pair :
                 IF pair = <<>> THEN NoIface
                 ELSE router.interfaces[IF end = "source" THEN pair[1] ELSE pair[2]]))

BackboneSubnet(devs, c) ==
    Let(LinkInterface(devs, c, "source"), LAMBDA iface :
        IF iface = NoIface THEN <<>> ELSE deriveSubnet(iface.ip, maskOf(iface)))

\* in this state every connection between two routers has an interface on
\* each of them, both on one network no other such connection uses
DistinctBackbones(devs, conns) ==
    \A k \in 1..Len(conns) :
        ( /\ Find(devs, LAMBDA d : d.id = conns[k].source).type = "router"
          /\ Find(devs, LAMBDA d : d.id = conns[k].target).type = "router" )
        => /\ LinkInterface(devs, conns[k], "source") # NoIface
           /\ LinkInterface(devs, conns[k], "target") # NoIface
           /\ deriveSubnet(LinkInterface(devs, conns[k], "target").ip, BACKBONE_MASK)
                 = BackboneSubnet(devs, conns[k])
           /\ \A j \in 1..Len(conns) :
                 ( /\ j # k
                   /\ Find(devs, LAMBDA d : d.id = conns[j].source).type = "router"
                   /\ Find(devs, LAMBDA d : d.id = conns[j].target).type = "router" )
                 => BackboneSubnet(devs, conns[j]) # BackboneSubnet(devs, conns[k])

\* the step appended a connection between two routers
BackboneAdded ==
    /\ Len(connections') = Len(connections) + 1
    /\ sourceInterfaceIdOf(connections'[Len(connections')]) # ""

\* the lowest number that is the third octet of no 10.0.x.y address on a
\* router interface other than LAN
LowestFreeIndex(devs) ==
    CHOOSE n \in 0..255 :
        /\ \A m \in 0..(n - 1) :
              \E i \in 1..Len(devs) : \E k \in 1..Len(devs[i].interfaces) :
                  /\ devs[i].type = "router"
                  /\ devs[i].interfaces[k].name # "LAN"
                  /\ getNetwork(devs[i].interfaces[k].ip) = getNetwork(IP(10, 0, m, 0))
        /\ \A i \in 1..Len(devs) : \A k \in 1..Len(devs[i].interfaces) :
              ( devs[i].type = "router" /\ devs[i].interfaces[k].name # "LAN" )
              => getNetwork(devs[i].interfaces[k].ip) # getNetwork(IP(10, 0, n, 0))

\* C18: a step that adds a connection between two routers puts it on the
\* network 10.0.N.0/24, N the lowest index no router interface other than LAN
\* used before the step, its two new interfaces at 10.0.N.1 and 10.0.N.2; and
\* after every step of adding and deleting no two connections between
\* routers are on the same backbone network
C18_LowestFreeBackbone ==
    [][ /\ BackboneAdded =>
            /\ BackboneSubnet(devices', connections'[Len(connections')])
                  = IP(10, 0, LowestFreeIndex(devices), 0)
            /\ LinkInterface(devices', connections'[Len(connections')], "source").ip
                  = IP(10, 0, LowestFreeIndex(devices), 1)
            /\ LinkInterface(devices', connections'[Len(connections')], "target").ip
                  = IP(10, 0, LowestFreeIndex(devices), 2)
        /\ DistinctBackbones(devices', connections') ]_vars

\* R1-R3 is on 10.0.1.0 and R2-R3, added after R1-R2 was deleted, on 10.0.0.0
C18_Witness ==
    /\ Len(connections) = 2
    /\ connections[1].id = "r1-r3"
    /\ connections[2].id = "r2-r3"
    /\ BackboneSubnet(devices, connections[1]) = IP(10, 0, 1, 0)
    /\ BackboneSubnet(devices, connections[2]) = IP(10, 0, 0, 0)
    /\ RouterLinks = {1, 2}


\* the connection asked for has a PC, a DNS server or a web server at one end
JoinsEndpoint(c) ==
    \E i \in 1..Len(devices) :
        /\ devices[i].id \in {c.source, c.target}
        /\ isEndpointDevice(devices[i])
        /\ \E j \in 1..Len(devices) : devices[j].id = c.source
        /\ \E j \in 1..Len(devices) : devices[j].id = c.target

\* addConnection(c) would return the state it was given
Rejected(c) == addConnectionState(devices, connections, c) = Topology(devices, connections)

\* C19 as stated: while two devices other than routers have the same address,
\* addConnection rejects every connection, whatever the two devices are
C19_Original ==
    duplicateIPs(devices) # {} => \A c \in ConnectionArgs(devices) : Rejected(c)

\* C19: while two devices other than routers have the same address,
\* addConnection rejects, leaving devices and connections as they were, every
\* connection that has a PC, a DNS server or a web server at one end
C19_EndpointRejected ==
    duplicateIPs(devices) # {} =>
        \A c \in ConnectionArgs(devices) : JoinsEndpoint(c) => Rejected(c)

\* PC1 and PC9 share an address: R2-R3 is connected, R1-PC1 and PC9-R1 are
\* rejected, R1-R2 is not
C19_Witness ==
    /\ duplicateIPs(devices) = {PC1ip}
    /\ \E i \in 1..Len(devices) : devices[i].id = "pc9"
    /\ \E i \in 1..Len(devices) : devices[i].id = "pc1"
    /\ Len(connections) = 1
    /\ connections[1].id = "r2-r3"
    /\ Rejected(Conn("r1", "pc1"))
    /\ Rejected(Conn("pc9", "r1"))
    /\ ~Rejected(Conn("r1", "r2"))

\* a device of type server and PC9 share an address: R1-PC9 is rejected,
\* R1-Srv1 is not
C19_WitnessServer ==
    /\ duplicateIPs(devices) = {PC1ip}
    /\ \E i \in 1..Len(devices) : devices[i].id = "srv1"
    /\ Rejected(Conn("r1", "pc9"))
    /\ ~Rejected(Conn("r1", "srv1"))


\* the two devices of a connection, whichever is source and which target
Ends(c) == {c.source, c.target}

\* C20: no two connections join the same two devices, in whichever
\* direction each was drawn, and addConnection for two devices that a
\* connection already joins, in either direction, returns the state it was
\* given
C20_OneConnectionPerPair ==
    /\ \A j, k \in 1..Len(connections) : j # k => Ends(connections[j]) # Ends(connections[k])
    /\ \A c \in ConnectionArgs(devices) :
          (\E k \in 1..Len(connections) : Ends(connections[k]) = Ends(c)) => Rejected(c)

\* PC1-R1 and R1-R2 are connected and no address is shared: R1-PC1 and R2-R1,
\* the same pairs drawn the other way, are rejected, and so are PC1-R1 and
\* R1-R2 drawn again
C20_Witness ==
    /\ Len(connections) = 2
    /\ connections[1].id = "pc1-r1"
    /\ connections[2].id = "r1-r2"
    /\ duplicateIPs(devices) = {}
    /\ Rejected(Conn("r1", "pc1"))
    /\ Rejected(Conn("r2", "r1"))
    /\ Rejected(Conn("pc1", "r1"))
    /\ Rejected(Conn("r1", "r2"))
    /\ ~Rejected(Conn("r3", "r2"))


\* the step is a deleteConnection that removed the connection at position k
ConnectionDeleted(k) ==
    /\ k \in 1..Len(connections)
    /\ Len(devices') = Len(devices)
    /\ Len(connections') = Len(connections) - 1
    /\ \A j \in 1..Len(connections') : connections'[j].id # connections[k].id

\* the id of the interface the creation of connection c added on one of its
\* routers: the one c names or, for the connection of the starting topology
\* that names none, eth1 of that router
CreatedInterface(c, end) ==
    IF end = "source"
    THEN (IF sourceInterfaceIdOf(c) # "" THEN sourceInterfaceIdOf(c) ELSE c.source \o "-eth1")
    ELSE (IF targetInterfaceIdOf(c) # "" THEN targetInterfaceIdOf(c) ELSE c.target \o "-eth1")

\* C21: a deleteConnection step removes the connection and nothing else from
\* the list of connections; if the connection joined two routers, each of
\* them loses the one interface the creation of the connection added to it
\* and every other interface of every device stays; if it joined a router and
\* another device, no device changes
C21_DeleteFrame ==
    [][ \A k \in 1..Len(connections) : ConnectionDeleted(k) =>
          /\ connections' = SelectSeq(connections, LAMBDA c : c.id # connections[k].id)
          /\ \A i \in 1..Len(devices) :
                IF k \in RouterLinks /\ devices[i].id = connections[k].source
                THEN /\ Len(devices'[i].interfaces) = Len(devices[i].interfaces) - 1
                     /\ devices'[i] = [devices[i] EXCEPT !.interfaces =
                           SelectSeq(@, LAMBDA f : f.id # CreatedInterface(connections[k], "source"))]
                ELSE IF k \in RouterLinks /\ devices[i].id = connections[k].target
                THEN /\ Len(devices'[i].interfaces) = Len(devices[i].interfaces) - 1
                     /\ devices'[i] = [devices[i] EXCEPT !.interfaces =
                           SelectSeq(@, LAMBDA f : f.id # CreatedInterface(connections[k], "target"))]
                ELSE devices'[i] = devices[i] ]_vars

\* R1-R3 is the one connection and uses eth2 of R1: the connection that used
\* eth1 of R1 was deleted, and so was its interface on R2, which has its LAN
\* interface only
C21_Witness ==
    /\ Len(connections) = 1
    /\ connections[1].id = "r1-r3"
    /\ sourceInterfaceIdOf(connections[1]) = "r1-eth2"
    /\ \E i \in 1..Len(devices) :
          /\ devices[i].id = "r1"
          /\ Len(devices[i].interfaces) = 2
          /\ devices[i].interfaces[2].name = "eth2"
    /\ \E i \in 1..Len(devices) :
          /\ devices[i].id = "r2"
          /\ Len(devices[i].interfaces) = 1


\* a router has one interface named LAN, at the router's primary address; any
\* other device has one interface
Conforms(d) ==
    IF d.type = "router"
    THEN /\ Cardinality({k \in 1..Len(d.interfaces) : d.interfaces[k].name = "LAN"}) = 1
         /\ \A k \in 1..Len(d.interfaces) :
               d.interfaces[k].name = "LAN" => d.interfaces[k].ip = d.ip
    ELSE Len(d.interfaces) = 1

C22_WitnessEdited ==
    \E i \in 1..Len(devices) :
        /\ devices[i].id = "old4"
        /\ devices[i].ip = IP(172, 16, 0, 1)
        /\ devices[i].interfaces[1].ip = IP(172, 16, 0, 1)
        /\ devices[i].interfaces[1].subnetMask = IP(255, 255, 0, 0)
        /\ devices[i].interfaces[1].subnet = IP(172, 16, 0, 0)


\* two rows of the table have the same destination and the same metric
Clash(table) ==
    \E i, j \in 1..Len(table) :
        i # j /\ table[i].destination = table[j].destination /\ table[i].metric = table[j].metric

\* C23: for every router and every table the editor can hold, saving it
\* leaves every device as it is if two of its rows have the same destination
\* and metric, and otherwise makes it the router's table and leaves every
\* other device, and everything else of the router, as it is
C23_SaveRefusedOnClash ==
    \A i \in 1..Len(devices) : \A t \in EditorTables :
        devices[i].type = "router" =>
            IF Clash(t)
            THEN savedDevices(devices, devices[i].id, t) = devices
            ELSE savedDevices(devices, devices[i].id, t)
                    = [devices EXCEPT ![i] = [devices[i] EXCEPT !.routingTable = t]]

\* R1 holds the two routes to the other LAN through R2 with metrics 2 and 1,
\* saved from the editor; saving one of them twice, or two routes of metric
\* 1, would be refused
C23_Witness ==
    \E i \in 1..Len(devices) :
        /\ devices[i].id = "r1"
        /\ devices[i].routingTable = <<Route(Net2, NameR(2), 2), Route(Net2, NameR(2), 1)>>
        /\ savedDevices(devices, "r1", <<Route(Net2, NameR(2), 1), Route(Net2, DirectWord, 1)>>)
              = devices
        /\ savedDevices(devices, "r1", <<Route(Net2, NameR(2), 1)>>) # devices


\* the device a ping starts from
SourceDevice == Find(devices, LAMBDA d : d.ip = args.sourceIP)

\* the source is not a router and a connection joins it to a router that has
\* an interface on the source's network
LinkedToGateway ==
    /\ SourceDevice # NoDevice
    /\ SourceDevice.type # "router"
    /\ \E i \in 1..Len(devices) :
          /\ devices[i].type = "router"
          /\ \E k \in 1..Len(devices[i].interfaces) :
                getNetwork(devices[i].interfaces[k].ip) = getNetwork(SourceDevice.ip)
          /\ \E k \in 1..Len(connections) :
                {connections[k].source, connections[k].target}
                   = {SourceDevice.id, devices[i].id}

\* the ping ended at its source for want of a gateway or of a link to it
FailedAtSource ==
    /\ pc \in {"return", "done"}
    /\ simulationType = "ping"
    /\ ~thrown
    /\ ~requestRoute.success
    /\ requestRoute.message.kind \in {"noGateway", "noLink"}
    /\ requestRoute.path = <<SourceDevice.name>>

\* C24 as stated: a ping from a device that is not a router and is connected
\* to a router with an interface on its network never ends at the source
\* with the no-gateway or the no-link failure
C24_Original == LinkedToGateway => ~FailedAtSource

\* R4 comes first in the device list and PC1, connected to R4 only, reaches
\* PC3 through it
C24_Witness ==
    /\ pc = "done"
    /\ simulationType = "ping"
    /\ devices[1].id = "r4"
    /\ Len(connections) = 2
    /\ connections[1].id = "pc1-r4"
    /\ args = [sourceIP |-> PC1ip, destIP |-> PC3Lan1ip]
    /\ simulationResult.success
    /\ simulationResult.path = <<NamePC(1), NameR(4), NamePC(3)>>


\* the routers a connection joins the source of the ping to
LinkedRouters ==
    { devices[i].name : i \in { j \in 1..Len(devices) :
        /\ devices[j].type = "router"
        /\ \E k \in 1..Len(connections) :
              {connections[k].source, connections[k].target}
                 = {SourceDevice.id, devices[j].id} } }

\* C25 as stated: a finished ping from a device to another, the source being
\* joined to a router by a connection that addConnection accepted, has that
\* router next to the source on its path
C25_Original ==
    ( /\ pc \in {"return", "done"}
      /\ simulationType = "ping"
      /\ args.sourceIP # args.destIP
      /\ LinkedRouters # {} )
    => /\ Len(requestRoute.path) >= 2
       /\ requestRoute.path[2] \in LinkedRouters

\* PC2, accepted on the LAN 192.168.2.0/25 of R2, pings R2 and has it as
\* gateway
C25_Witness ==
    /\ pc = "done"
    /\ simulationType = "ping"
    /\ args = [sourceIP |-> PC2ip, destIP |-> R2ip]
    /\ \E k \in 1..Len(connections) : connections[k].id = "pc2-r2"
    /\ simulationResult.success
    /\ simulationResult.path = <<NamePC(2), NameR(2)>>


\* the connections that use interface f of the router d
UsersOf(d, f) ==
    { k \in 1..Len(connections) :
        \/ connections[k].source = d.id /\ LinkInterface(devices, connections[k], "source") = f
        \/ connections[k].target = d.id /\ LinkInterface(devices, connections[k], "target") = f }

\* C26 as stated: every interface other than LAN of every router is the
\* interface of exactly one connection
C26_Original ==
    \A i \in 1..Len(devices) :
        devices[i].type = "router" =>
            \A n \in 1..Len(devices[i].interfaces) :
                devices[i].interfaces[n].name # "LAN" =>
                    Cardinality(UsersOf(devices[i], devices[i].interfaces[n])) = 1

\* R1 has one interface for its connection to R2 and one for its connection
\* to R3, and no router has any other interface than these and LAN
C26_Witness ==
    /\ Len(connections) = 2
    /\ connections[1].id = "r1-r2"
    /\ connections[2].id = "r1-r3"
    /\ C26_Original
    /\ \E i \in 1..Len(devices) : devices[i].id = "r1" /\ Len(devices[i].interfaces) = 3


\* the LAN subnets of the routers
LanSubnets ==
    { deriveSubnet(getLanInterface(devices[i]).ip, maskOf(getLanInterface(devices[i]))) :
        i \in { j \in 1..Len(devices) :
                  devices[j].type = "router" /\ getLanInterface(devices[j]) # NoIface } }

\* C27 as stated: the backbone subnet of no connection between two routers
\* is the LAN subnet of a router
C27_Original ==
    \A k \in RouterLinks : BackboneSubnet(devices, connections[k]) \notin LanSubnets

\* the routers have their LANs on 192.168.x.0 and R1-R2 and R2-R3 are on
\* 10.0.0.0 and 10.0.1.0
C27_Witness ==
    /\ LanSubnets = {Net1, Net2, IP(192, 168, 3, 0)}
    /\ Len(connections) = 2
    /\ BackboneSubnet(devices, connections[1]) = IP(10, 0, 0, 0)
    /\ BackboneSubnet(devices, connections[2]) = IP(10, 0, 1, 0)
    /\ C27_Original

(***************************************************************************)
(* The hop budget and the destination (src/src/App.tsx:1491-1505,          *)
(* 1788-1799).                                                             *)
(***************************************************************************)
\* following the route each device uses, the packet goes from d to the device
\* holding destIP in at most hops hand-overs, passing no device of seen again
RECURSIVE ReachesWithin(_, _, _, _)
ReachesWithin(d, destIP, seen, hops) ==
    IF d.ip = destIP THEN TRUE
    ELSE IF hops = 0 THEN FALSE
    ELSE LET o == LoopBody(devices, connections, Walk(d, 0, {}, <<>>, <<>>), destIP, FALSE)
         IN  IF o.threw THEN FALSE
             ELSE IF o.ret THEN o.result.success
             ELSE /\ o.walk.currentDevice.id \notin seen
                  /\ ReachesWithin(o.walk.currentDevice, destIP,
                                   seen \cup {o.walk.currentDevice.id}, hops - 1)

\* C28 as stated: when the first feasible route at each router leads from
\* the source to the destination device in at most 10 hops without passing a
\* device twice, the result is a success, and the hop-budget failure is
\* returned only when the destination is more than 10 hops away
C28_Original ==
    (pc = "return" /\ WalkStarted)
    => /\ ReachesWithin(Source, args.destIP, {Source.id}, maxHops) => requestRoute.success
       /\ (~requestRoute.success /\ requestRoute.message.kind = "maxHops")
            => ~ReachesWithin(Source, args.destIP, {Source.id}, maxHops)

\* ten hops to an endpoint behind nine routers: the last router delivers
\* inside its own pass of the loop and the result is a success
C28_Witness ==
    /\ pc = "return"
    /\ WalkStarted
    /\ walk.hopCount = maxHops - 1
    /\ requestRoute.success
    /\ Len(requestRoute.path) = maxHops + 1
    /\ ReachesWithin(Source, args.destIP, {Source.id}, maxHops)

\* ten hops to a router: the walk stands on the destination when the budget
\* runs out
C28_WitnessRouter ==
    /\ pc = "return"
    /\ WalkStarted
    /\ walk.hopCount = maxHops
    /\ walk.currentDevice.ip = args.destIP
    /\ ~requestRoute.success
    /\ requestRoute.message.kind = "maxHops"

(***************************************************************************)
(* The path of a success (src/src/App.tsx:1496-1552, 1593-1706,            *)
(* 1745-1791).                                                             *)
(***************************************************************************)
\* the devices named a and b are joined by a connection of the snapshot
JoinedByName(a, b) ==
    \E i, j \in 1..Len(devices) :
        /\ devices[i].name = a
        /\ devices[j].name = b
        /\ Linked(devices[i].id, devices[j].id)

\* simulateRouting returned a success
Succeeded ==
    /\ pc = "return"
    /\ ~thrown
    /\ requestRoute # NoResult
    /\ requestRoute.success

\* C29: the path of every success simulateRouting returns starts with the
\* source device, ends with a device whose primary address is the
\* destination address, and every two consecutive devices of it are joined
\* by a connection of the snapshot.
C29_PathWellFormed ==
    Succeeded
    => /\ Len(requestRoute.path) >= 1
       /\ requestRoute.path[1] = Source.name
       /\ \E i \in 1..Len(devices) :
             /\ devices[i].name = requestRoute.path[Len(requestRoute.path)]
             /\ devices[i].ip = args.destIP
       /\ \A k \in 1..(Len(requestRoute.path) - 1) :
             JoinedByName(requestRoute.path[k], requestRoute.path[k + 1])

\* a success over two routers: every step of the path is a connection
C29_Witness ==
    /\ Succeeded
    /\ Len(requestRoute.path) = 4
    /\ requestRoute.path[1] = Source.name
    /\ Source.type = "pc"
    /\ \A k \in 1..3 : JoinedByName(requestRoute.path[k], requestRoute.path[k + 1])
    /\ walk.currentDevice.type = "router"
    /\ walk.hopCount = 2

\* the success of a device that addresses itself: the path is the device
C29_WitnessSelf ==
    /\ Succeeded
    /\ args.sourceIP = args.destIP
    /\ requestRoute.path = <<Source.name>>

(***************************************************************************)
(* Candidates of equal metric (src/src/App.tsx:1570-1593).                 *)
(***************************************************************************)
\* the place of candidate i when the candidates are put in ascending metric,
\* those of one metric in the order of the routing table
Rank(i) ==
    1 + Cardinality({ j \in 1..Len(Candidates) :
                        \/ Candidates[j].metric < Candidates[i].metric
                        \/ Candidates[j].metric = Candidates[i].metric /\ j < i })

TableOrder ==
    [k \in 1..Len(Candidates) |->
        Candidates[CHOOSE i \in 1..Len(Candidates) : Rank(i) = k]]

\* R1 holds two routes of metric 1 to PC2's network, over R3 and then over R2
TieCase == TableOf("r1") = <<Route(Net2, NameR(3), 1), Route(Net2, NameR(2), 1)>>

\* C30: candidates of equal metric are tried in the order in which they stand
\* in the router's routing table: the route used is the first feasible one
\* of the candidates taken by ascending metric and, within a metric, by table
\* position; when none is feasible the failure lists the attempts in that
\* order.
C30_TiesInTableOrder ==
    [][ (AtRouter /\ Len(Candidates) > 0)
        => IF \E k \in 1..Len(Candidates) : FeasibleAt(TableOrder[k])
           THEN \E k \in 1..Len(Candidates) :
                   /\ FeasibleAt(TableOrder[k])
                   /\ \A m \in 1..(k - 1) : ~FeasibleAt(TableOrder[m])
                   /\ ContinuesVia(TableOrder[k])
           ELSE /\ pc' = "return"
                /\ requestRoute'.message =
                      Message("allRoutesFailed",
                              <<walk.currentDevice.name, args.destIP>>
                              \o failedInfo(FailedRoutes(devices, connections,
                                                         walk.currentDevice, args.destIP,
                                                         TableOrder, Len(Candidates))))
      ]_vars

\* both routes of the tie are feasible and R1 has handed the packet to R3,
\* the next hop of the one that stands first in its table
C30_Witness ==
    /\ TieCase
    /\ Linked("r1", "r3")
    /\ Linked("r1", "r2")
    /\ pc = "loop"
    /\ args.destIP = PC2ip
    /\ walk.path = <<NamePC(1), NameR(1), NameR(3)>>

\* the first route of the tie has no link: R1 falls to the second one
C30_WitnessSecond ==
    /\ TieCase
    /\ ~Linked("r1", "r3")
    /\ pc = "loop"
    /\ args.destIP = PC2ip
    /\ walk.path = <<NamePC(1), NameR(1), NameR(2)>>

====
